---- MODULE Spec2Model ----
(***************************************************************************)
(* FLOW-FORGE (patabrava/AIUGC): the batch state machine, the handlers    *)
(* that write a batch's state, video submission with its recovery log,    *)
(* the polling worker and the recovery script.                            *)
(*                                                                         *)
(* The primary store (Supabase) is the only shared state.  Every handler  *)
(* is a sequence of independent store calls and provider calls; each call *)
(* is one atomic step of the model and the steps of different requests,   *)
(* of the poller process and of the recovery script interleave freely.    *)
(* One batch is modelled; its post rows exist in the store.               *)
(***************************************************************************)
EXTENDS Integers, Sequences, FiniteSets, TLC

\* ----------------------------------------------------------------- bounds
NumPosts == 1        \* post rows of the batch
NumApi   == 1        \* API requests that can be in flight at once
MaxOps   == 1        \* provider submissions accepted during a run
NumRacers == 2       \* API requests in flight at once in the race specifications
NumCohort == 2       \* post rows of the batch in the cohort specifications
NumAdders == 2       \* add_topic_to_registry calls in flight at once
NumTopics == 1       \* distinct (title, rotation, cta) triples
MaxUseCount == 3     \* no further call is started once a use_count is this high
MaxNew == 2          \* candidates in one deduplicate_topics call
MaxExisting == 1     \* registry rows passed to one deduplicate_topics call
NumCohortOps == 2    \* provider submissions accepted in the cohort specifications
MaxScript == 3       \* pieces of text in one script

PostIds == 1..NumPosts
ApiProcs == 1..NumApi
Poller == 0                 \* workers/video_poller.py, its own process
Recov == NumApi + 1         \* recovery_logs/recover_videos.py, its own process
Procs == 0..(NumApi + 1)
OpIds == 1..MaxOps
Racers == 1..NumRacers
CohortIds == 1..NumCohort
CohortOpIds == 1..NumCohortOps
Adders == 1..NumAdders
TopicKeys == 1..NumTopics
Providers == {"veo_3_1", "sora_2"}

\* ------------------------------------------------------- app/core/states.py
S1_SETUP         == "S1_SETUP"
S2_SEEDED        == "S2_SEEDED"
S4_SCRIPTED      == "S4_SCRIPTED"
S5_PROMPTS_BUILT == "S5_PROMPTS_BUILT"
S6_QA            == "S6_QA"
S7_PUBLISH_PLAN  == "S7_PUBLISH_PLAN"
S8_COMPLETE      == "S8_COMPLETE"

BatchState ==
  {S1_SETUP, S2_SEEDED, S4_SCRIPTED, S5_PROMPTS_BUILT, S6_QA, S7_PUBLISH_PLAN, S8_COMPLETE}

\* the table without the rework paths out of S6_QA
STATE_TRANSITIONS_NoRework ==
  [s \in BatchState |->
     CASE s = S1_SETUP         -> {S2_SEEDED}
       [] s = S2_SEEDED        -> {S4_SCRIPTED}
       [] s = S4_SCRIPTED      -> {S5_PROMPTS_BUILT}
       [] s = S5_PROMPTS_BUILT -> {S6_QA}
       [] s = S6_QA            -> {S7_PUBLISH_PLAN}
       [] s = S7_PUBLISH_PLAN  -> {S8_COMPLETE}
       [] s = S8_COMPLETE      -> {}]

STATE_TRANSITIONS ==
  [s \in BatchState |->
     CASE s = S1_SETUP         -> {S2_SEEDED}
       [] s = S2_SEEDED        -> {S4_SCRIPTED}
       [] s = S4_SCRIPTED      -> {S5_PROMPTS_BUILT}
       [] s = S5_PROMPTS_BUILT -> {S6_QA}
       [] s = S6_QA            -> {S7_PUBLISH_PLAN, S4_SCRIPTED, S5_PROMPTS_BUILT}
       [] s = S7_PUBLISH_PLAN  -> {S8_COMPLETE}
       [] s = S8_COMPLETE      -> {}]

\* the details of the StateTransitionError validate_state_transition raises
StateTransitionErrorDetails(current_state, target_state) ==
  [current_state |-> current_state, target_state |-> target_state,
   allowed_transitions |-> STATE_TRANSITIONS[current_state]]

\* a validation that lets every target through
validate_state_transition_Permissive(current_state, target_state) == "ok"

\* validate_state_transition: "ok" when it returns, the error it raises otherwise
validate_state_transition(current_state, target_state) ==
  IF target_state \notin STATE_TRANSITIONS[current_state]
    THEN "StateTransitionError"
    ELSE "ok"

\* ------------------------------------------------------------------- state
VARIABLES
  batchState,    \* batches.state of the batch
  posts,         \* posts rows of the batch, by post id
  proc,          \* per process: the handler it runs, its position, its locals
  jobs,          \* provider side: status of every accepted operation
  stdoutLog,     \* operation ids emitted by logger.warning (stdout stream)
  recoveryLog,   \* recovery_logs/video_recovery_*.jsonl, one record per line
  registry       \* topic_registry: use_count of the row of each (title, rotation, cta); 0 = no row

vars == <<batchState, posts, proc, jobs, stdoutLog, recoveryLog, registry>>

\* an empty topic_registry
NoTopics == [k \in TopicKeys |-> 0]

\* a posts row as create_post_for_batch inserts it
NewPost ==
  [prompt |-> FALSE, video_status |-> "pending", op |-> 0, provider |-> "none",
   meta |-> {}, url |-> FALSE, scheduled |-> FALSE, publish_status |-> "pending",
   platform_ids |-> FALSE, qa_pass |-> FALSE]

Idle ==
  [op |-> "idle", pc |-> "idle", cur |-> "none", target |-> "none", post |-> 0,
   opid |-> 0, provider |-> "none", dbstatus |-> "none",
   snap |-> [i \in PostIds |-> NewPost], todo |-> {},
   submitted |-> 0, skipped |-> 0, validated |-> FALSE, approved |-> FALSE,
   dbfailed |-> {}, unlogged |-> {}, result |-> "none", details |-> "none"]

\* the handler has ended with result res; only what its caller sees is kept
Finish(p, res) ==
  [proc EXCEPT ![p] = [Idle EXCEPT !.op = proc[p].op, !.pc = "done", !.result = res]]

\* requests are anonymous: a new one takes the lowest free slot
CanStart(p) ==
  /\ proc[p].pc = "idle"
  /\ \A q \in ApiProcs : q < p => proc[q].pc # "idle"

Min(S) == CHOOSE x \in S : \A y \in S : x <= y

\* ------------------------------- batches/handlers.py advance_batch_state_endpoint
AdvanceStart(p, t) ==
  /\ CanStart(p)
  /\ proc' = [proc EXCEPT ![p] = [Idle EXCEPT !.op = "advance", !.pc = "ubs_read", !.target = t]]
  /\ UNCHANGED <<batchState, posts, jobs, stdoutLog, recoveryLog, registry>>

\* batches/queries.py update_batch_state: get_batch_by_id, then validate
UBS_Read(p) ==
  /\ proc[p].pc = "ubs_read"
  /\ IF validate_state_transition(batchState, proc[p].target) = "ok"
       THEN proc' = [proc EXCEPT ![p].pc = "ubs_write", ![p].cur = batchState,
                                 ![p].validated = TRUE]
       ELSE proc' = [Finish(p, "StateTransitionError") EXCEPT ![p].details =
                       StateTransitionErrorDetails(batchState, proc[p].target)]
  /\ UNCHANGED <<batchState, posts, jobs, stdoutLog, recoveryLog, registry>>

\* batches/queries.py update_batch_state: the update of batches.state
UBS_Write(p) ==
  /\ proc[p].pc = "ubs_write"
  /\ batchState' = proc[p].target
  /\ proc' = Finish(p, "ok")
  /\ UNCHANGED <<posts, jobs, stdoutLog, recoveryLog, registry>>

\* the handler returns (or raises) to its caller
Return(p) ==
  /\ proc[p].pc = "done"
  /\ proc' = [proc EXCEPT ![p] = Idle]
  /\ UNCHANGED <<batchState, posts, jobs, stdoutLog, recoveryLog, registry>>

\* ------------------------------------ topics/handlers.py discover_topics_endpoint
\* parameters of generate_topics_research_agent (topics/agents.py)
generate_topics_research_agent_params == {"post_type", "count"}
\* keyword arguments the handler passes to it
discover_call_kwargs == {"brand", "post_type", "count"}
\* a Python call binds only keyword arguments the function declares
CallBinds(params, kwargs) == kwargs \subseteq params

DiscoverStart(p) ==
  /\ CanStart(p)
  /\ proc' = [proc EXCEPT ![p] = [Idle EXCEPT !.op = "discover", !.pc = "d_read"]]
  /\ UNCHANGED <<batchState, posts, jobs, stdoutLog, recoveryLog, registry>>

\* get_batch_by_id and the S1_SETUP guard
D_Read(p) ==
  /\ proc[p].pc = "d_read"
  /\ IF batchState # S1_SETUP
       THEN proc' = Finish(p, "ValidationError")
       ELSE proc' = [proc EXCEPT ![p].pc = "d_generate", ![p].cur = batchState]
  /\ UNCHANGED <<batchState, posts, jobs, stdoutLog, recoveryLog, registry>>

\* first pass of the per-type loop: the call of generate_topics_research_agent.
\* The call passes brand=, which the function does not declare: TypeError, caught
\* by the handler's "except Exception" and turned into HTTP 500.  The statements
\* after the call (post creation, the shortage check, update_batch_state) are
\* never reached.
D_Generate(p) ==
  /\ proc[p].pc = "d_generate"
  /\ IF CallBinds(generate_topics_research_agent_params, discover_call_kwargs)
       THEN proc' = [proc EXCEPT ![p].pc = "d_items"]
       ELSE proc' = Finish(p, "HTTP_500")
  /\ UNCHANGED <<batchState, posts, jobs, stdoutLog, recoveryLog, registry>>

\* ------------------------------------------ posts/handlers.py build_post_prompt
\* fetch the post, build and validate the prompt (seed data is present)
BP_Start(p, i) ==
  /\ CanStart(p)
  /\ proc' = [proc EXCEPT ![p] = [Idle EXCEPT !.op = "build_prompt", !.pc = "bp_write", !.post = i]]
  /\ UNCHANGED <<batchState, posts, jobs, stdoutLog, recoveryLog, registry>>

\* store video_prompt_json on the post
BP_Write(p) ==
  /\ proc[p].pc = "bp_write"
  /\ posts' = [posts EXCEPT ![proc[p].post].prompt = TRUE]
  /\ proc' = [proc EXCEPT ![p].pc = "mt_read_state"]
  /\ UNCHANGED <<batchState, jobs, stdoutLog, recoveryLog, registry>>

\* _maybe_transition_batch_to_prompts_built: select state
MT_ReadState(p) ==
  /\ proc[p].pc = "mt_read_state"
  /\ IF batchState \notin {S4_SCRIPTED, S5_PROMPTS_BUILT}
       THEN proc' = Finish(p, "ok")
       ELSE proc' = [proc EXCEPT ![p].pc = "mt_read_posts", ![p].cur = batchState]
  /\ UNCHANGED <<batchState, posts, jobs, stdoutLog, recoveryLog, registry>>

\* the check without its "already S5_PROMPTS_BUILT" return
MT_ReadPosts_NoRepeatGuard(p) ==
  /\ proc[p].pc = "mt_read_posts"
  /\ LET prompts_ready == Cardinality({i \in DOMAIN posts : posts[i].prompt})
     IN IF DOMAIN posts = {} \/ prompts_ready # Cardinality(DOMAIN posts)
          THEN proc' = Finish(p, "ok")
          ELSE proc' = [proc EXCEPT ![p].pc = "mt_write"]
  /\ UNCHANGED <<batchState, posts, jobs, stdoutLog, recoveryLog, registry>>

\* _maybe_transition_batch_to_prompts_built: select posts, count prompts
MT_ReadPosts(p) ==
  /\ proc[p].pc = "mt_read_posts"
  /\ LET prompts_ready == Cardinality({i \in DOMAIN posts : posts[i].prompt})
     IN IF DOMAIN posts = {} \/ prompts_ready # Cardinality(DOMAIN posts)
             \/ proc[p].cur = S5_PROMPTS_BUILT
          THEN proc' = Finish(p, "ok")
          ELSE proc' = [proc EXCEPT ![p].pc = "mt_write"]
  /\ UNCHANGED <<batchState, posts, jobs, stdoutLog, recoveryLog, registry>>

\* _maybe_transition_batch_to_prompts_built: update batches.state
MT_Write(p) ==
  /\ proc[p].pc = "mt_write"
  /\ batchState' = S5_PROMPTS_BUILT
  /\ proc' = Finish(p, "ok")
  /\ UNCHANGED <<posts, jobs, stdoutLog, recoveryLog, registry>>

\* ------------------------------------------------ publish/handlers.py schedule_post
\* update_post_schedule: one update of the post
SchedulePost(i) ==
  /\ ~posts[i].scheduled
  /\ posts' = [posts EXCEPT ![i].scheduled = TRUE, ![i].publish_status = "scheduled"]
  /\ UNCHANGED <<batchState, proc, jobs, stdoutLog, recoveryLog, registry>>

\* --------------------------------------------- publish/handlers.py confirm_publish
CP_Start(p) ==
  /\ CanStart(p)
  /\ proc' = [proc EXCEPT ![p] = [Idle EXCEPT !.op = "confirm_publish", !.pc = "cp_read_state"]]
  /\ UNCHANGED <<batchState, posts, jobs, stdoutLog, recoveryLog, registry>>

CP_ReadState(p) ==
  /\ proc[p].pc = "cp_read_state"
  /\ IF batchState # S7_PUBLISH_PLAN
       THEN proc' = Finish(p, "HTTP_409")
       ELSE proc' = [proc EXCEPT ![p].pc = "cp_read_posts", ![p].cur = batchState]
  /\ UNCHANGED <<batchState, posts, jobs, stdoutLog, recoveryLog, registry>>

CP_ReadPosts(p) ==
  /\ proc[p].pc = "cp_read_posts"
  /\ LET unscheduled == {i \in DOMAIN posts : ~posts[i].scheduled}
     IN IF unscheduled # {}
          THEN proc' = Finish(p, "HTTP_400")
          ELSE proc' = [proc EXCEPT ![p].pc = "cp_update_post", ![p].todo = DOMAIN posts]
  /\ UNCHANGED <<batchState, posts, jobs, stdoutLog, recoveryLog, registry>>

\* the loop over posts: mark one post scheduled, with its platform ids
CP_UpdatePost(p) ==
  /\ proc[p].pc = "cp_update_post"
  /\ proc[p].todo # {}
  /\ LET i == Min(proc[p].todo)
     IN /\ posts' = [posts EXCEPT ![i].publish_status = "scheduled",
                                  ![i].platform_ids = TRUE]
        /\ proc' = [proc EXCEPT ![p].todo = proc[p].todo \ {i}]
  /\ UNCHANGED <<batchState, jobs, stdoutLog, recoveryLog, registry>>

\* update batches.state to S8_COMPLETE
CP_WriteState(p) ==
  /\ proc[p].pc = "cp_update_post"
  /\ proc[p].todo = {}
  /\ batchState' = S8_COMPLETE
  /\ proc' = Finish(p, "ok")
  /\ UNCHANGED <<posts, jobs, stdoutLog, recoveryLog, registry>>

\* a store call of the handler raises: "except Exception" answers HTTP 500; the
\* updates made before it stay
CP_UpdateFail(p) ==
  /\ proc[p].pc = "cp_update_post"
  /\ proc[p].todo # {}
  /\ proc' = Finish(p, "HTTP_500")
  /\ UNCHANGED <<batchState, posts, jobs, stdoutLog, recoveryLog, registry>>

CP_WriteFail(p) ==
  /\ proc[p].pc = "cp_update_post"
  /\ proc[p].todo = {}
  /\ proc' = Finish(p, "HTTP_500")
  /\ UNCHANGED <<batchState, posts, jobs, stdoutLog, recoveryLog, registry>>

\* ------------------------------------------------------ qa/handlers.py approve_qa
AQ_Start(p, i, approved) ==
  /\ CanStart(p)
  /\ proc' = [proc EXCEPT ![p] = [Idle EXCEPT !.op = "approve_qa", !.pc = "aq_read",
                                    !.post = i, !.approved = approved]]
  /\ UNCHANGED <<batchState, posts, jobs, stdoutLog, recoveryLog, registry>>

\* select the post; only its existence is tested
AQ_Read(p) ==
  /\ proc[p].pc = "aq_read"
  /\ IF proc[p].post \notin DOMAIN posts
       THEN proc' = Finish(p, "NotFound")
       ELSE proc' = [proc EXCEPT ![p].pc = "aq_write"]
  /\ UNCHANGED <<batchState, posts, jobs, stdoutLog, recoveryLog, registry>>

\* update qa_pass (and qa_notes) with the request's decision
AQ_Write(p) ==
  /\ proc[p].pc = "aq_write"
  /\ posts' = [posts EXCEPT ![proc[p].post].qa_pass = proc[p].approved]
  /\ proc' = Finish(p, "ok")
  /\ UNCHANGED <<batchState, jobs, stdoutLog, recoveryLog, registry>>

\* ------------------------------------------------------ the video provider
\* the provider works on an accepted job: queued -> in_progress -> completed | failed
JobAdvance(o) ==
  /\ jobs[o] \in {"queued", "in_progress"}
  /\ \E s \in (IF jobs[o] = "queued" THEN {"in_progress"} ELSE {"completed", "failed"}) :
       jobs' = [jobs EXCEPT ![o] = s]
  /\ UNCHANGED <<batchState, posts, proc, stdoutLog, recoveryLog, registry>>

\* status field of the provider's answer to a submission:
\* veo_client returns "submitted"; sora_client returns the job's status
SubmitStatus(provider, jobstatus) ==
  IF provider = "veo_3_1" THEN "submitted" ELSE jobstatus

\* a normalisation that stores the provider's word as it is
DbStatus_Raw(provider_status) == provider_status

\* "Normalize provider status to DB-compatible values"
DbStatus(provider_status) ==
  IF provider_status = "queued" THEN "submitted" ELSE provider_status

\* keys of video_metadata written by the submit paths
SubmissionKeys ==
  {"requested_aspect_ratio", "requested_resolution", "requested_seconds",
   "requested_size", "provider_model", "provider_metadata"}

\* the update of the post row after a submission
SubmittedPost(post, existing, provider, operation_id, db_status) ==
  [post EXCEPT !.provider = provider, !.op = operation_id,
               !.video_status = db_status,
               !.meta = existing.meta \cup SubmissionKeys]

\* _write_recovery_record: the line appended to the recovery file
RecoveryRecord(post_id, operation_id, provider) ==
  [post_id |-> post_id, operation_id |-> operation_id, provider |-> provider,
   status |-> "db_update_failed"]

\* a _write_recovery_record that appends nothing
WriteRecoveryRecord_Dropped(log, post_id, operation_id, provider, disk_ok) == log

\* _write_recovery_record: append, or (open/write raised) only log the failure
WriteRecoveryRecord(log, post_id, operation_id, provider, disk_ok) ==
  IF disk_ok THEN Append(log, RecoveryRecord(post_id, operation_id, provider))
             ELSE log

\* a submission path without the operation-id log line
LogOperationId_Skipped(log, operation_id) == log

\* logger.warning("video_operation_id_paid_request", ...) before the DB update
LogOperationId(log, operation_id) == log \cup {operation_id}

FreeOps == {o \in DOMAIN jobs : jobs[o] = "none"}

\* -------------------------------------------- videos/handlers.py generate_video
GV_Start(p, i, prov) ==
  /\ CanStart(p)
  /\ proc' = [proc EXCEPT ![p] = [Idle EXCEPT !.op = "generate_video", !.pc = "gv_read",
                                    !.post = i, !.provider = prov]]
  /\ UNCHANGED <<batchState, posts, jobs, stdoutLog, recoveryLog, registry>>

\* fetch the post; video_prompt_json is required
GV_Read(p) ==
  /\ proc[p].pc = "gv_read"
  /\ IF ~posts[proc[p].post].prompt
       THEN proc' = Finish(p, "ValidationError")
       ELSE proc' = [proc EXCEPT ![p].pc = "gv_submit",
                                 ![p].snap = [j \in DOMAIN posts |->
                                              IF j = proc[p].post THEN posts[j] ELSE NewPost]]
  /\ UNCHANGED <<batchState, posts, jobs, stdoutLog, recoveryLog, registry>>

\* _submit_video_request raised (request rejected or provider failure)
GV_SubmitFail(p) ==
  /\ proc[p].pc = "gv_submit"
  /\ proc' = Finish(p, "submit_failed")
  /\ UNCHANGED <<batchState, posts, jobs, stdoutLog, recoveryLog, registry>>

\* the provider accepted the job; the operation id is logged (logger.warning)
GV_SubmitOk(p) ==
  /\ proc[p].pc = "gv_submit"
  /\ FreeOps # {}
  /\ LET o == Min(FreeOps)
     IN \E js \in {"queued", "in_progress"} :
          /\ jobs' = [jobs EXCEPT ![o] = js]
          /\ stdoutLog' = LogOperationId(stdoutLog, o)
          /\ proc' = [proc EXCEPT ![p].pc = "gv_store", ![p].opid = o,
                                  ![p].dbstatus = DbStatus(SubmitStatus(proc[p].provider, js))]
  /\ UNCHANGED <<batchState, posts, recoveryLog, registry>>

\* the handler has ended; what it returned or raised and what happened to its
\* submissions is kept
FinishVideo(p, res) ==
  [proc EXCEPT ![p] = [Idle EXCEPT !.op = proc[p].op, !.pc = "done",
                         !.post = proc[p].post, !.opid = proc[p].opid,
                         !.provider = proc[p].provider,
                         !.submitted = proc[p].submitted, !.skipped = proc[p].skipped,
                         !.dbfailed = proc[p].dbfailed, !.unlogged = proc[p].unlogged,
                         !.result = res]]

\* the update of the post row succeeded
GV_StoreOk(p) ==
  /\ proc[p].pc = "gv_store"
  /\ LET i == proc[p].post
     IN posts' = [posts EXCEPT ![i] = SubmittedPost(posts[i], proc[p].snap[i], proc[p].provider,
                                                    proc[p].opid, proc[p].dbstatus)]
  /\ proc' = FinishVideo(p, "ok")
  /\ UNCHANGED <<batchState, jobs, stdoutLog, recoveryLog, registry>>

\* the update of the post row raised
GV_StoreFail(p) ==
  /\ proc[p].pc = "gv_store"
  /\ proc' = [proc EXCEPT ![p].pc = "gv_recovery",
                          ![p].dbfailed = proc[p].dbfailed \cup {proc[p].opid}]
  /\ UNCHANGED <<batchState, posts, jobs, stdoutLog, recoveryLog, registry>>

\* except db_error: _write_recovery_record(...), then raise (-> HTTP 500)
GV_Recovery(p) ==
  /\ proc[p].pc = "gv_recovery"
  /\ \E disk_ok \in BOOLEAN :
       /\ recoveryLog' = WriteRecoveryRecord(recoveryLog, proc[p].post, proc[p].opid,
                                             proc[p].provider, disk_ok)
       /\ proc' = [FinishVideo(p, "HTTP_500") EXCEPT ![p].unlogged =
                     IF disk_ok THEN proc[p].unlogged ELSE proc[p].unlogged \cup {proc[p].opid}]
  /\ UNCHANGED <<batchState, posts, jobs, stdoutLog, registry>>

\* --------------------------------------- videos/handlers.py generate_all_videos
GA_Start(p, prov) ==
  /\ CanStart(p)
  /\ proc' = [proc EXCEPT ![p] = [Idle EXCEPT !.op = "generate_all_videos", !.pc = "ga_read",
                                    !.provider = prov]]
  /\ UNCHANGED <<batchState, posts, jobs, stdoutLog, recoveryLog, registry>>

\* select * from posts where batch_id = ...
GA_Read(p) ==
  /\ proc[p].pc = "ga_read"
  /\ proc' = [proc EXCEPT ![p].pc = "ga_next", ![p].snap = posts, ![p].todo = DOMAIN posts]
  /\ UNCHANGED <<batchState, posts, jobs, stdoutLog, recoveryLog, registry>>

\* a skip test that looks at video_status only
GA_Skips_StatusOnly(post) ==
  post.video_status \in {"submitted", "processing", "completed"}

\* "Skip posts without prompts or already submitted"
GA_Skips(post) ==
  \/ ~post.prompt
  \/ post.video_status \in {"submitted", "processing", "completed"}

\* head of the loop over the fetched posts; after the loop the handler returns
\* a SuccessResponse with the two counts
GA_Next(p) ==
  /\ proc[p].pc = "ga_next"
  /\ IF proc[p].todo = {}
       THEN proc' = FinishVideo(p, "ok")
       ELSE LET i == Min(proc[p].todo)
            IN IF GA_Skips(proc[p].snap[i])
                 THEN proc' = [proc EXCEPT ![p].todo = proc[p].todo \ {i},
                                           ![p].skipped = proc[p].skipped + 1]
                 ELSE proc' = [proc EXCEPT ![p].todo = proc[p].todo \ {i},
                                           ![p].post = i, ![p].pc = "ga_submit"]
  /\ UNCHANGED <<batchState, posts, jobs, stdoutLog, recoveryLog, registry>>

\* a provider failure that is logged but not counted
GA_SubmitFail_Uncounted(p) ==
  /\ proc[p].pc = "ga_submit"
  /\ proc' = [proc EXCEPT ![p].pc = "ga_next"]
  /\ UNCHANGED <<batchState, posts, jobs, stdoutLog, recoveryLog, registry>>

\* _submit_video_request raised: logged, skipped_count += 1
GA_SubmitFail(p) ==
  /\ proc[p].pc = "ga_submit"
  /\ proc' = [proc EXCEPT ![p].pc = "ga_next", ![p].skipped = proc[p].skipped + 1]
  /\ UNCHANGED <<batchState, posts, jobs, stdoutLog, recoveryLog, registry>>

\* the provider accepted the job; the operation id is logged (logger.warning)
GA_SubmitOk(p) ==
  /\ proc[p].pc = "ga_submit"
  /\ FreeOps # {}
  /\ LET o == Min(FreeOps)
     IN \E js \in {"queued", "in_progress"} :
          /\ jobs' = [jobs EXCEPT ![o] = js]
          /\ stdoutLog' = LogOperationId(stdoutLog, o)
          /\ proc' = [proc EXCEPT ![p].pc = "ga_store", ![p].opid = o,
                                  ![p].dbstatus = DbStatus(SubmitStatus(proc[p].provider, js))]
  /\ UNCHANGED <<batchState, posts, recoveryLog, registry>>

\* the update of the post row succeeded: submitted_count += 1
GA_StoreOk(p) ==
  /\ proc[p].pc = "ga_store"
  /\ LET i == proc[p].post
     IN posts' = [posts EXCEPT ![i] = SubmittedPost(posts[i], proc[p].snap[i], proc[p].provider,
                                                    proc[p].opid, proc[p].dbstatus)]
  /\ proc' = [proc EXCEPT ![p].pc = "ga_next", ![p].submitted = proc[p].submitted + 1]
  /\ UNCHANGED <<batchState, jobs, stdoutLog, recoveryLog, registry>>

\* the update of the post row raised
GA_StoreFail(p) ==
  /\ proc[p].pc = "ga_store"
  /\ proc' = [proc EXCEPT ![p].pc = "ga_recovery",
                          ![p].dbfailed = proc[p].dbfailed \cup {proc[p].opid}]
  /\ UNCHANGED <<batchState, posts, jobs, stdoutLog, recoveryLog, registry>>

\* a batch loop that re-raises after _write_recovery_record
GA_AfterRecovery_Raise == "raise"

\* where the loop goes after _write_recovery_record:
\* "Don't raise in batch mode - continue with other posts"
GA_AfterRecovery == "ga_next"

\* except db_error: _write_recovery_record(...); skipped_count += 1; continue
GA_Recovery(p) ==
  /\ proc[p].pc = "ga_recovery"
  /\ \E disk_ok \in BOOLEAN :
       /\ recoveryLog' = WriteRecoveryRecord(recoveryLog, proc[p].post, proc[p].opid,
                                             proc[p].provider, disk_ok)
       /\ LET u == IF disk_ok THEN proc[p].unlogged ELSE proc[p].unlogged \cup {proc[p].opid}
          IN IF GA_AfterRecovery = "ga_next"
               THEN proc' = [proc EXCEPT ![p].pc = "ga_next", ![p].unlogged = u,
                                         ![p].skipped = proc[p].skipped + 1]
               ELSE proc' = [FinishVideo(p, "HTTP_500") EXCEPT ![p].unlogged = u]
  /\ UNCHANGED <<batchState, posts, jobs, stdoutLog, registry>>

\* ----------------------------------------------------- workers/video_poller.py
ProcessingKeys == {"provider", "progress", "provider_status"}
CompletionKeys ==
  {"imagekit_file_id", "size_bytes", "provider", "file_path", "thumbnail_url",
   "provider_metadata", "upload_method"}
FailureKeys == {"error", "provider", "operation_id"}

\* an update that stores the completion metadata alone
CompletedPost_Replace(post, existing_metadata) ==
  [post EXCEPT !.video_status = "completed", !.url = TRUE,
               !.meta = CompletionKeys]

\* _store_completed_video: the update of the post row
CompletedPost(post, existing_metadata) ==
  [post EXCEPT !.video_status = "completed", !.url = TRUE,
               !.meta = existing_metadata \cup CompletionKeys]

\* the poller goes on with the next post of its cycle
PollerNext == [proc EXCEPT ![Poller].pc = "poll_next", ![Poller].post = 0,
                           ![Poller].cur = "none", ![Poller].dbstatus = "none"]

\* poll_pending_videos: select posts with video_status in [submitted, processing]
\* (a cycle that fetches no post changes nothing)
PollFetch ==
  /\ proc[Poller].pc = "idle"
  /\ \E i \in DOMAIN posts : posts[i].video_status \in {"submitted", "processing"}
  /\ proc' = [proc EXCEPT ![Poller] =
                [Idle EXCEPT !.op = "poll", !.pc = "poll_next", !.snap = posts,
                             !.todo = {i \in DOMAIN posts : posts[i].video_status \in {"submitted", "processing"}}]]
  /\ UNCHANGED <<batchState, posts, jobs, stdoutLog, recoveryLog, registry>>

\* the loop over the fetched posts; process_video_operation up to the provider call
PollNext ==
  /\ proc[Poller].pc = "poll_next"
  /\ IF proc[Poller].todo = {}
       THEN proc' = [proc EXCEPT ![Poller] = Idle]
       ELSE LET i == Min(proc[Poller].todo)
                post == proc[Poller].snap[i]
            IN proc' = [proc EXCEPT ![Poller].todo = proc[Poller].todo \ {i},
                                    ![Poller].post = IF post.op = 0 \/ post.provider = "none" THEN 0 ELSE i,
                                    ![Poller].pc = IF post.op = 0 \/ post.provider = "none" THEN "poll_next"
                                                   ELSE IF post.provider = "veo_3_1" THEN "veo_check"
                                                   ELSE "sora_check"]
  /\ UNCHANGED <<batchState, posts, jobs, stdoutLog, recoveryLog, registry>>

\* the status call raised (transport error): caught by process_video_operation
P_CheckError ==
  /\ proc[Poller].pc \in {"veo_check", "sora_check"}
  /\ proc' = [proc EXCEPT ![Poller].pc = "mark_failed"]
  /\ UNCHANGED <<batchState, posts, jobs, stdoutLog, recoveryLog, registry>>

\* _handle_veo_video: check_operation_status
VeoCheck ==
  /\ proc[Poller].pc = "veo_check"
  /\ LET st == jobs[proc[Poller].snap[proc[Poller].post].op]
     IN proc' = [proc EXCEPT ![Poller].pc =
                   IF st \in {"queued", "in_progress"} THEN "mark_processing"
                   ELSE IF st = "completed" THEN "transfer"
                   ELSE "mark_failed"]
  /\ UNCHANGED <<batchState, posts, jobs, stdoutLog, recoveryLog, registry>>

\* _handle_sora_video: check_video_status
SoraCheck ==
  /\ proc[Poller].pc = "sora_check"
  /\ LET st == jobs[proc[Poller].snap[proc[Poller].post].op]
     IN proc' = [proc EXCEPT ![Poller].pc =
                   IF st = "completed" THEN "transfer"
                   ELSE IF st \in {"failed", "cancelled"} THEN "mark_failed"
                   ELSE "sora_progress",
                 ![Poller].dbstatus =
                   IF st \in {"completed", "failed", "cancelled"} THEN "none"
                   ELSE IF st \in {"in_progress", "processing"} THEN "processing"
                   ELSE "submitted"]
  /\ UNCHANGED <<batchState, posts, jobs, stdoutLog, recoveryLog, registry>>

\* download the asset and upload it to the CDN; either may raise
Transfer ==
  /\ proc[Poller].pc = "transfer"
  /\ \E ok \in BOOLEAN :
       proc' = [proc EXCEPT ![Poller].pc = IF ok THEN "store_completed" ELSE "mark_failed"]
  /\ UNCHANGED <<batchState, posts, jobs, stdoutLog, recoveryLog, registry>>

\* _store_completed_video: update the post, metadata merged with the fetched row's
StoreCompleted ==
  /\ proc[Poller].pc = "store_completed"
  /\ LET i == proc[Poller].post
     IN posts' = [posts EXCEPT ![i] = CompletedPost(posts[i], proc[Poller].snap[i].meta)]
  /\ proc' = [proc EXCEPT ![Poller].pc = "qa_read_state"]
  /\ UNCHANGED <<batchState, jobs, stdoutLog, recoveryLog, registry>>

\* _check_and_transition_batch_to_qa: select the batch's state
QA_ReadState ==
  /\ proc[Poller].pc = "qa_read_state"
  /\ IF batchState # S5_PROMPTS_BUILT
       THEN proc' = PollerNext
       ELSE proc' = [proc EXCEPT ![Poller].pc = "qa_read_posts", ![Poller].cur = batchState]
  /\ UNCHANGED <<batchState, posts, jobs, stdoutLog, recoveryLog, registry>>

\* _check_and_transition_batch_to_qa: select the batch's posts, count completed
QA_ReadPosts ==
  /\ proc[Poller].pc = "qa_read_posts"
  /\ LET completed_videos == Cardinality({i \in DOMAIN posts : posts[i].video_status = "completed"})
     IN IF DOMAIN posts # {} /\ completed_videos = Cardinality(DOMAIN posts)
          THEN proc' = [proc EXCEPT ![Poller].pc = "qa_write"]
          ELSE proc' = PollerNext
  /\ UNCHANGED <<batchState, posts, jobs, stdoutLog, recoveryLog, registry>>

\* _check_and_transition_batch_to_qa: update batches.state
QA_Write ==
  /\ proc[Poller].pc = "qa_write"
  /\ batchState' = S6_QA
  /\ proc' = PollerNext
  /\ UNCHANGED <<posts, jobs, stdoutLog, recoveryLog, registry>>

\* an except branch that puts the post back in line for the next cycle
MarkFailed_Requeue ==
  /\ proc[Poller].pc = "mark_failed"
  /\ posts' = [posts EXCEPT ![proc[Poller].post].video_status = "submitted",
                            ![proc[Poller].post].meta = FailureKeys]
  /\ proc' = PollerNext
  /\ UNCHANGED <<batchState, jobs, stdoutLog, recoveryLog, registry>>

\* process_video_operation, except branch: "Mark as failed after exception";
\* an update that raises is logged (failed_to_mark_video_failed) and dropped
MarkFailed ==
  /\ proc[Poller].pc = "mark_failed"
  /\ \E db_ok \in BOOLEAN :
       posts' = IF db_ok
                  THEN [posts EXCEPT ![proc[Poller].post].video_status = "failed",
                                     ![proc[Poller].post].meta = FailureKeys]
                  ELSE posts
  /\ proc' = PollerNext
  /\ UNCHANGED <<batchState, jobs, stdoutLog, recoveryLog, registry>>

\* _mark_processing (VEO, operation not done)
MarkProcessing ==
  /\ proc[Poller].pc = "mark_processing"
  /\ posts' = [posts EXCEPT ![proc[Poller].post].video_status = "processing"]
  /\ proc' = PollerNext
  /\ UNCHANGED <<batchState, jobs, stdoutLog, recoveryLog, registry>>

\* a progress update that stores the progress keys alone
SoraProgress_Replace ==
  /\ proc[Poller].pc = "sora_progress"
  /\ LET i == proc[Poller].post
     IN posts' = [posts EXCEPT ![i].video_status = proc[Poller].dbstatus,
                               ![i].meta = ProcessingKeys]
  /\ proc' = PollerNext
  /\ UNCHANGED <<batchState, jobs, stdoutLog, recoveryLog, registry>>

\* _handle_sora_video, job not terminal: status and merged metadata
SoraProgress ==
  /\ proc[Poller].pc = "sora_progress"
  /\ LET i == proc[Poller].post
     IN posts' = [posts EXCEPT ![i].video_status = proc[Poller].dbstatus,
                               ![i].meta = proc[Poller].snap[i].meta \cup ProcessingKeys]
  /\ proc' = PollerNext
  /\ UNCHANGED <<batchState, jobs, stdoutLog, recoveryLog, registry>>

\* ------------------------------------------- recovery_logs/recover_videos.py
\* keys of the dict sora_client.check_video_status returns
SoraStatusKeys == {"video_id", "status", "progress", "model", "seconds", "size", "error"}

\* status_result.get("done") on that dict: None (falsy) when the key is absent
SoraDone(jobstatus) ==
  "done" \in SoraStatusKeys /\ jobstatus \in {"completed", "failed"}

\* "done" of veo_client.check_operation_status
VeoDone(jobstatus) == jobstatus \in {"completed", "failed"}

\* video_metadata written by recover_sora_video / recover_veo_video
RecoveredKeys == {"recovered", "recovery_timestamp", "imagekit_file_id", "provider"}

\* the update of the post row by the recovery script
RecoveredPost(post, operation_id) ==
  [post EXCEPT !.op = operation_id, !.video_status = "completed", !.url = TRUE,
               !.meta = RecoveredKeys]

\* one record has been replayed with outcome res: "recovered" (True),
\* "still_processing" (False) or "failed" (exception)
Replayed(res) == [proc EXCEPT ![Recov].pc = "r_replayed", ![Recov].result = res]

\* main: read_recovery_records of the file
R_Start ==
  /\ proc[Recov].pc = "idle"
  /\ recoveryLog # <<>>
  /\ proc' = [proc EXCEPT ![Recov] =
                [Idle EXCEPT !.op = "recover", !.pc = "r_next", !.todo = DOMAIN recoveryLog]]
  /\ UNCHANGED <<batchState, posts, jobs, stdoutLog, recoveryLog, registry>>

\* main: the loop over the records, dispatch on the record's provider
R_Next ==
  /\ proc[Recov].pc \in {"r_next", "r_replayed"}
  /\ IF proc[Recov].todo = {}
       THEN proc' = [proc EXCEPT ![Recov] = Idle]
       ELSE LET k == Min(proc[Recov].todo)
                record == recoveryLog[k]
            IN proc' = [proc EXCEPT ![Recov] =
                          [Idle EXCEPT !.op = "recover", !.todo = proc[Recov].todo \ {k},
                                       !.post = record.post_id, !.opid = record.operation_id,
                                       !.provider = record.provider,
                                       !.pc = IF record.provider = "veo_3_1"
                                                THEN "r_veo_check" ELSE "r_sora_check"]]
  /\ UNCHANGED <<batchState, posts, jobs, stdoutLog, recoveryLog, registry>>

\* the status call raised: main counts the record as failed
R_CheckError ==
  /\ proc[Recov].pc \in {"r_veo_check", "r_sora_check"}
  /\ proc' = Replayed("failed")
  /\ UNCHANGED <<batchState, posts, jobs, stdoutLog, recoveryLog, registry>>

\* recover_sora_video: check_video_status, then the "done" and "failed" tests
R_SoraCheck ==
  /\ proc[Recov].pc = "r_sora_check"
  /\ LET st == jobs[proc[Recov].opid]
     IN proc' = [(IF ~SoraDone(st) \/ st = "failed"
                    THEN Replayed("still_processing")
                    ELSE [proc EXCEPT ![Recov].pc = "r_transfer"])
                 EXCEPT ![Recov].dbstatus = st]
  /\ UNCHANGED <<batchState, posts, jobs, stdoutLog, recoveryLog, registry>>

\* recover_veo_video: check_operation_status, then the "done" and video_uri tests
R_VeoCheck ==
  /\ proc[Recov].pc = "r_veo_check"
  /\ LET st == jobs[proc[Recov].opid]
     IN proc' = [(IF ~VeoDone(st) \/ st = "failed"
                    THEN Replayed("still_processing")
                    ELSE [proc EXCEPT ![Recov].pc = "r_transfer"])
                 EXCEPT ![Recov].dbstatus = st]
  /\ UNCHANGED <<batchState, posts, jobs, stdoutLog, recoveryLog, registry>>

\* download_video and imagekit.upload_video; either may raise
R_Transfer ==
  /\ proc[Recov].pc = "r_transfer"
  /\ \E ok \in BOOLEAN :
       proc' = IF ok THEN [proc EXCEPT ![Recov].pc = "r_store"] ELSE Replayed("failed")
  /\ UNCHANGED <<batchState, posts, jobs, stdoutLog, recoveryLog, registry>>

\* the update of the post row; the row as it was is remembered in snap
R_Store ==
  /\ proc[Recov].pc = "r_store"
  /\ LET i == proc[Recov].post
     IN /\ posts' = [posts EXCEPT ![i] = RecoveredPost(posts[i], proc[Recov].opid)]
        /\ proc' = [Replayed("recovered") EXCEPT ![Recov].snap = [j \in DOMAIN posts |->
                                                        IF j = i THEN posts[j] ELSE NewPost]]
  /\ UNCHANGED <<batchState, jobs, stdoutLog, recoveryLog, registry>>

RecoveryNextStep ==
  \/ R_Start
  \/ R_Next
  \/ R_CheckError
  \/ R_SoraCheck
  \/ R_VeoCheck
  \/ R_Transfer
  \/ R_Store

\* ------------------------------------- topics/queries.py add_topic_to_registry
\* a caller of add_topic_to_registry between calls
AdderIdle == [op |-> "idle", pc |-> "idle", topic |-> 0, current_count |-> 0, result |-> "none"]

add_topic_to_registry(p, k) ==
  /\ proc[p].pc = "idle"
  /\ registry[k] < MaxUseCount
  /\ proc' = [proc EXCEPT ![p] = [AdderIdle EXCEPT !.op = "add_topic_to_registry",
                                                  !.pc = "atr_insert", !.topic = k]]
  /\ UNCHANGED <<batchState, posts, jobs, stdoutLog, recoveryLog, registry>>

\* insert with use_count 1; the unique constraint rejects it when the row exists
ATR_Insert(p) ==
  /\ proc[p].pc = "atr_insert"
  /\ IF registry[proc[p].topic] = 0
       THEN /\ registry' = [registry EXCEPT ![proc[p].topic] = 1]
            /\ proc' = [proc EXCEPT ![p].pc = "done", ![p].result = "ok"]
       ELSE /\ registry' = registry
            /\ proc' = [proc EXCEPT ![p].pc = "atr_select"]
  /\ UNCHANGED <<batchState, posts, jobs, stdoutLog, recoveryLog>>

\* the insert failed for another reason: re-raised
ATR_InsertError(p) ==
  /\ proc[p].pc = "atr_insert"
  /\ proc' = [proc EXCEPT ![p].pc = "done", ![p].result = "Exception"]
  /\ UNCHANGED <<batchState, posts, jobs, stdoutLog, recoveryLog, registry>>

\* select the existing row: current_count = existing.data[0]["use_count"]
ATR_Select(p) ==
  /\ proc[p].pc = "atr_select"
  /\ IF registry[proc[p].topic] = 0
       THEN proc' = [proc EXCEPT ![p].pc = "done", ![p].result = "Exception"]
       ELSE proc' = [proc EXCEPT ![p].pc = "atr_update",
                                 ![p].current_count = registry[proc[p].topic]]
  /\ UNCHANGED <<batchState, posts, jobs, stdoutLog, recoveryLog, registry>>

\* update the row: use_count = current_count + 1
ATR_Update(p) ==
  /\ proc[p].pc = "atr_update"
  /\ registry' = [registry EXCEPT ![proc[p].topic] = proc[p].current_count + 1]
  /\ proc' = [proc EXCEPT ![p].pc = "done", ![p].result = "ok"]
  /\ UNCHANGED <<batchState, posts, jobs, stdoutLog, recoveryLog>>

\* the call has returned or raised
ATR_Return(p) ==
  /\ proc[p].pc = "done"
  /\ proc' = [proc EXCEPT ![p] = AdderIdle]
  /\ UNCHANGED <<batchState, posts, jobs, stdoutLog, recoveryLog, registry>>

\* --------------------------------------------------- topics/deduplication.py
\* tokenize: a text is modelled by the set of its lower-case words
Tokens == {"a", "b"}

\* similarities are kept as integers: SimScale stands for 1.0
SimScale == 600

\* jaccard_similarity, in units of 1/60
jaccard_similarity(set1, set2) ==
  IF set1 = {} \/ set2 = {}
    THEN 0
    ELSE (Cardinality(set1 \cap set2) * 60) \div Cardinality(set1 \cup set2)

\* calculate_topic_similarity: 0.5 title + 0.3 rotation + 0.2 cta, in units of 1/600
calculate_topic_similarity(t1, t2) ==
  5 * jaccard_similarity(t1.title, t2.title)
    + 3 * jaccard_similarity(t1.rotation, t2.rotation)
    + 2 * jaccard_similarity(t1.cta, t2.cta)

\* the dicts the callers pass: registry rows have an "id", candidates
\* (title, rotation, cta, ...) have none
TopicDicts(has_id) ==
  [title : (SUBSET Tokens) \ {{}}, rotation : {{}, {"a"}}, cta : {{"a"}, {"b"}},
   has_id : {has_id}]

\* the thresholds in use: 0.35 (discover_topics_endpoint) and 0.7 (default)
Thresholds == {(35 * SimScale) \div 100, (7 * SimScale) \div 10}

\* is_duplicate_topic from a position in existing_topics on, with the maximum
\* so far: existing["id"] is read whenever the maximum is raised
RECURSIVE is_duplicate_topic(_, _, _, _)
is_duplicate_topic(topic, existing_topics, threshold, max_similarity) ==
  IF existing_topics = <<>>
    THEN "unique"
    ELSE LET existing == Head(existing_topics)
             similarity == calculate_topic_similarity(topic, existing)
         IN IF similarity > max_similarity /\ ~existing.has_id
              THEN "KeyError"
              ELSE IF similarity >= threshold
                THEN "duplicate"
                ELSE is_duplicate_topic(topic, Tail(existing_topics), threshold,
                                        IF similarity > max_similarity THEN similarity
                                        ELSE max_similarity)

\* a caller of deduplicate_topics before the call
DedupCall(new_topics, existing_topics, threshold) ==
  [op |-> "deduplicate_topics", pc |-> "dd_loop", new_topics |-> new_topics,
   existing_topics |-> existing_topics, threshold |-> threshold,
   unique_topics |-> <<>>, result |-> "none"]

\* deduplicate_topics: one pass of "for topic in new_topics", or the return
DD_Loop(p) ==
  /\ proc[p].pc = "dd_loop"
  /\ IF proc[p].new_topics = <<>>
       THEN proc' = [proc EXCEPT ![p].pc = "done", ![p].result = "ok"]
       ELSE LET topic == Head(proc[p].new_topics)
                is_dup == is_duplicate_topic(topic, proc[p].existing_topics \o proc[p].unique_topics,
                                             proc[p].threshold, 0)
            IN IF is_dup = "KeyError"
                 THEN proc' = [proc EXCEPT ![p].pc = "done", ![p].result = "KeyError"]
                 ELSE proc' = [proc EXCEPT ![p].new_topics = Tail(proc[p].new_topics),
                                           ![p].unique_topics =
                                              IF is_dup = "unique"
                                                THEN Append(proc[p].unique_topics, topic)
                                                ELSE proc[p].unique_topics]
  /\ UNCHANGED <<batchState, posts, jobs, stdoutLog, recoveryLog, registry>>

\* ------------------------------------------ topics/agents.py PROMPT_1 chunks
\* "max_attempts = 4" in _generate_prompt1_chunk
max_attempts == 4

\* ResearchAgentBatch.items: min_length = max_length = 10
ResearchAgentBatchItems == 10

\* generate_topics_research_agent asks for chunks of at most 2 topics
ChunkSizes == 1..2

\* what the text generation returns, as far as validation can tell: the number
\* of items in it and the first thing that is wrong with it
Defects == {"none", "not_json", "duration", "cta_reuse"}
Responses == [count : ChunkSizes \cup {ResearchAgentBatchItems}, defect : Defects]

\* parse_prompt1_response: "ok" when it returns the batch, else the message of
\* the ValidationError it raises
parse_prompt1_response(response) ==
  IF response.defect = "not_json" THEN "PROMPT_1 response not JSON"
  ELSE IF response.count # ResearchAgentBatchItems THEN "PROMPT_1 response invalid"
  ELSE IF response.defect = "duration" THEN "Script under 7 seconds"
  ELSE IF response.defect = "cta_reuse" THEN "CTA reuse detected"
  ELSE "ok"

\* a caller of _generate_prompt1_chunk before the first attempt
ChunkCall(desired_topics) ==
  [op |-> "_generate_prompt1_chunk", pc |-> "gc_generate", desired_topics |-> desired_topics,
   attempt |-> 0, response |-> "none", feedback |-> "none", items |-> 0, result |-> "none"]

\* llm.generate_openai returned text
GC_Generate(p) ==
  /\ proc[p].pc = "gc_generate"
  /\ \E response \in Responses :
       proc' = [proc EXCEPT ![p].pc = "gc_parse", ![p].attempt = proc[p].attempt + 1,
                            ![p].response = response]
  /\ UNCHANGED <<batchState, posts, jobs, stdoutLog, recoveryLog, registry>>

\* llm.generate_openai raised ThirdPartyError: the call is outside the try
\* block, and the except clause names ValidationError only
GC_GenerateError(p) ==
  /\ proc[p].pc = "gc_generate"
  /\ proc' = [proc EXCEPT ![p].pc = "done", ![p].attempt = proc[p].attempt + 1,
                          ![p].result = "ThirdPartyError"]
  /\ UNCHANGED <<batchState, posts, jobs, stdoutLog, recoveryLog, registry>>

\* the try block: parse, compare the count, return the items; on
\* ValidationError the feedback goes into the next prompt, and after the last
\* attempt "Unable to produce valid topics for chunk" is raised
GC_Parse(p) ==
  /\ proc[p].pc = "gc_parse"
  /\ LET parsed == parse_prompt1_response(proc[p].response)
         message == IF parsed # "ok" THEN parsed
                    ELSE IF proc[p].response.count # proc[p].desired_topics
                      THEN "PROMPT_1 chunk produced unexpected count"
                      ELSE "ok"
     IN IF message = "ok"
          THEN proc' = [proc EXCEPT ![p].pc = "done", ![p].result = "ok",
                                    ![p].items = proc[p].response.count]
          ELSE IF proc[p].attempt < max_attempts
            THEN proc' = [proc EXCEPT ![p].pc = "gc_generate", ![p].feedback = message,
                                      ![p].response = "none"]
            ELSE proc' = [proc EXCEPT ![p].pc = "done", ![p].result = "ValidationError",
                                      ![p].feedback = message, ![p].response = "none"]
  /\ UNCHANGED <<batchState, posts, jobs, stdoutLog, recoveryLog, registry>>

\* ------------------------------------ topics/agents.py PROMPT_1 batch validation
BatchIndices == 1..ResearchAgentBatchItems
Topics == {"t1", "t2", "t3"}

\* the word counts of the scripts in a response: none, one short of the
\* 7-second floor, the floor, the 8-second ceiling and one word beyond it
WordCounts == {0, 15, 16, 20, 21}

\* math.ceil(word_count / 2.6) in whole numbers
spoken_duration(word_count) == (10 * word_count + 25) \div 26

\* "while script_words and math.ceil(len(script_words) / 2.6) > 8:
\*      script_words.pop()"
RECURSIVE trim_script_words(_)
trim_script_words(word_count) ==
  IF word_count > 0 /\ spoken_duration(word_count) > 8
    THEN trim_script_words(word_count - 1)
    ELSE word_count

\* a script: its number of words, its trailing sentence (cta), the sentence
\* before that one (NoSentence when there is none), and cut = the words popped
\* off its end have taken the closing punctuation of the trailing sentence
NoSentence == <<"none", 0>>
Sentence(n) == <<"sentence", n>>
Script(words, prev, cta) == [words |-> words, prev |-> prev, cta |-> cta, cut |-> FALSE]

\* extract_soft_cta: the last complete sentence; without one, the last words
extract_soft_cta(script) ==
  IF ~script.cut THEN script.cta
  ELSE IF script.prev # NoSentence THEN script.prev
  ELSE <<"last_words", script.cta[2]>>

\* item i of a well-formed response: topics in rotation, 18 words, a trailing
\* sentence of its own, a summary that does not repeat the script
BaseItem(i) ==
  [topic |-> IF i % 2 = 1 THEN "t1" ELSE "t2",
   script |-> Script(18, NoSentence, Sentence(i)),
   has_duration |-> FALSE,
   estimated_duration_s |-> 0,
   summary_overlap |-> FALSE]
BaseItems == [i \in BatchIndices |-> BaseItem(i)]

\* the normalisation loop of parse_prompt1_response on one item dict
NormalizeItem(item) ==
  LET with_duration ==
        IF ~item.has_duration
          THEN [item EXCEPT !.has_duration = TRUE,
                            !.estimated_duration_s = spoken_duration(item.script.words)]
          ELSE item
      trimmed == trim_script_words(item.script.words)
  IN IF item.script.words = 0 THEN with_duration
     ELSE [with_duration EXCEPT
             !.script.words = trimmed,
             !.script.cut = item.script.cut \/ trimmed < item.script.words,
             !.has_duration = TRUE,
             !.estimated_duration_s =
                IF spoken_duration(trimmed) > 7 THEN spoken_duration(trimmed) ELSE 7]

\* "if len(script_words) < 16: raise ValidationError(PROMPT_1 script too short"
TooShort(item) == item.script.words > 0 /\ trim_script_words(item.script.words) < 16

\* ResearchAgentItem: script min_length 10, estimated_duration_s in 1..8
ResearchAgentItem(item) ==
  /\ item.script.words > 0
  /\ item.has_duration
  /\ item.estimated_duration_s \in 1..8

\* validate_duration: the message of the ValidationError, or "ok"
validate_duration(item) ==
  LET calculated == spoken_duration(item.script.words)
  IN IF calculated > 8 THEN "Script exceeds 8 seconds"
     ELSE IF calculated < 7 THEN "Script under 7 seconds"
     ELSE "ok"

\* validate_summary: the message of the ValidationError, or "ok"
validate_summary(item) ==
  IF item.summary_overlap THEN "Source summary overlaps too much with script" ELSE "ok"

\* the per-item checks after the schema; validate_sources_accessible only logs
validate_item(item) ==
  IF validate_duration(item) # "ok" THEN validate_duration(item) ELSE validate_summary(item)

\* validate_round_robin: the message of the ValidationError, or "ok"
validate_round_robin(items) ==
  LET unique_topics == {items[i].topic : i \in DOMAIN items}
      min_expected == IF Cardinality(DOMAIN items) < 2 THEN Cardinality(DOMAIN items) ELSE 2
      counts == [t \in unique_topics |-> Cardinality({i \in DOMAIN items : items[i].topic = t})]
  IN IF Cardinality(unique_topics) < min_expected
       THEN "PROMPT_1 output must contain distinct topics"
     ELSE IF \E i \in DOMAIN items : i > 1 /\ items[i].topic = items[i - 1].topic
       THEN "PROMPT_1 topics must not repeat consecutively"
     ELSE IF \E t, u \in unique_topics : counts[t] - counts[u] > 1
       THEN "PROMPT_1 topic distribution must be balanced"
     ELSE "ok"

\* a variant that compares each item with the one before it only
validate_unique_ctas_Adjacent(items) ==
  LET repeats == {j \in DOMAIN items :
                    j > 1 /\ extract_soft_cta(items[j - 1].script) = extract_soft_cta(items[j].script)}
  IN IF repeats = {} THEN {}
     ELSE LET j == CHOOSE j \in repeats : \A k \in repeats : j <= k
          IN {[cta |-> extract_soft_cta(items[j].script),
               first_index |-> j - 2, duplicate_index |-> j - 1]}

\* validate_unique_ctas: the ValidationErrors "CTA reuse detected" it raises,
\* none or one, each by its details; the loop stops at the first item whose
\* CTA was seen before, and seen[cta] is the index of the item that had it
\* first (indices from 0)
validate_unique_ctas(items) ==
  LET repeats == {j \in DOMAIN items :
                    \E i \in DOMAIN items :
                      i < j /\ extract_soft_cta(items[i].script) = extract_soft_cta(items[j].script)}
  IN IF repeats = {} THEN {}
     ELSE LET j == CHOOSE j \in repeats : \A k \in repeats : j <= k
              i == CHOOSE i \in DOMAIN items :
                     i < j /\ extract_soft_cta(items[i].script) = extract_soft_cta(items[j].script)
          IN {[cta |-> extract_soft_cta(items[j].script),
               first_index |-> i - 1, duplicate_index |-> j - 1]}

\* a caller of parse_prompt1_response with the items of the response
ParseCall(raw) ==
  [op |-> "parse_prompt1_response", pc |-> "pp_normalize", raw |-> raw, items |-> raw,
   result |-> "none", message |-> "none", details |-> "none"]

\* parse_prompt1_response raises ValidationError(message, details)
Raise(p, message, details) ==
  [proc EXCEPT ![p].pc = "done", ![p].result = "ValidationError",
               ![p].message = message, ![p].details = details]

\* "Normalize items before validation": the loop over the item dicts, which
\* stops at the first script that is too short
PP_Normalize(p) ==
  /\ proc[p].pc = "pp_normalize"
  /\ LET items == proc[p].items
         short == {i \in DOMAIN items : TooShort(items[i])}
         last == IF short = {} THEN ResearchAgentBatchItems
                 ELSE CHOOSE i \in short : \A k \in short : i <= k
         normalized == [i \in DOMAIN items |->
                          IF i <= last THEN NormalizeItem(items[i]) ELSE items[i]]
     IN IF short = {}
          THEN proc' = [proc EXCEPT ![p].pc = "pp_schema", ![p].items = normalized]
          ELSE proc' = [Raise(p, "PROMPT_1 script too short",
                              [word_count |-> normalized[last].script.words])
                          EXCEPT ![p].items = normalized]
  /\ UNCHANGED <<batchState, posts, jobs, stdoutLog, recoveryLog, registry>>

\* "batch = ResearchAgentBatch(**payload)"
PP_Schema(p) ==
  /\ proc[p].pc = "pp_schema"
  /\ IF \A i \in DOMAIN proc[p].items : ResearchAgentItem(proc[p].items[i])
       THEN proc' = [proc EXCEPT ![p].pc = "pp_items"]
       ELSE proc' = Raise(p, "PROMPT_1 response invalid", "none")
  /\ UNCHANGED <<batchState, posts, jobs, stdoutLog, recoveryLog, registry>>

\* "for item in batch.items: validate_duration(item); validate_summary(item);
\*  validate_sources_accessible(item)"
PP_Items(p) ==
  /\ proc[p].pc = "pp_items"
  /\ LET items == proc[p].items
         bad == {i \in DOMAIN items : validate_item(items[i]) # "ok"}
         last == IF bad = {} THEN ResearchAgentBatchItems
                 ELSE CHOOSE i \in bad : \A k \in bad : i <= k
         corrected == [i \in DOMAIN items |->
                         IF i <= last /\ validate_duration(items[i]) = "ok"
                           THEN [items[i] EXCEPT !.estimated_duration_s =
                                                    spoken_duration(items[i].script.words)]
                           ELSE items[i]]
     IN IF bad = {}
          THEN proc' = [proc EXCEPT ![p].pc = "pp_round_robin", ![p].items = corrected]
          ELSE proc' = [Raise(p, validate_item(items[last]), "none")
                          EXCEPT ![p].items = corrected]
  /\ UNCHANGED <<batchState, posts, jobs, stdoutLog, recoveryLog, registry>>

\* "validate_round_robin(batch.items)"
PP_RoundRobin(p) ==
  /\ proc[p].pc = "pp_round_robin"
  /\ IF validate_round_robin(proc[p].items) = "ok"
       THEN proc' = [proc EXCEPT ![p].pc = "pp_unique_ctas"]
       ELSE proc' = Raise(p, validate_round_robin(proc[p].items), "none")
  /\ UNCHANGED <<batchState, posts, jobs, stdoutLog, recoveryLog, registry>>

\* "validate_unique_ctas(batch.items); return batch"
PP_UniqueCtas(p) ==
  /\ proc[p].pc = "pp_unique_ctas"
  /\ IF validate_unique_ctas(proc[p].items) = {}
       THEN proc' = [proc EXCEPT ![p].pc = "done", ![p].result = "ok"]
       ELSE \E details \in validate_unique_ctas(proc[p].items) :
              proc' = Raise(p, "CTA reuse detected", details)
  /\ UNCHANGED <<batchState, posts, jobs, stdoutLog, recoveryLog, registry>>

\* ---------------------------------- posts/prompt_builder.py build_video_prompt_from_seed
\* a text is modelled by its pieces: "word" is any text without the marker,
\* "marker" the sentence "(After delivering the dialogue, ...)" that closes the
\* action text, "variant" the same sentence written "( After delivering ...";
\* the empty sequence is the empty text, or a key that is missing
ScriptPieces == {"word", "marker", "variant"}
Texts == UNION {[1..n -> ScriptPieces] : n \in 0..MaxScript}

\* the seed_data of a post: "script" (PROMPT_1, or the user's edit) and
\* "dialog_script" (PROMPT_2)
Seeds == [script : Texts, dialog_script : {<<>>, <<"word">>}]

\* suffix_variants
suffix_variants == {"marker", "variant"}

\* the default of VideoPrompt.action, up to "ENTER SCRIPT FROM POST HERE"
action_template == <<"Action:">>

\* OPTIMIZED_PROMPT_TEMPLATE around {dialogue}
build_optimized_prompt(dialogue) == <<"Subject & Look:">> \o dialogue \o <<"Audio:">>

\* "if normalized_dialogue.endswith(suffix): ...; break": one suffix is cut
normalize_dialogue(dialogue) ==
  IF dialogue # <<>> /\ dialogue[Len(dialogue)] \in suffix_variants
    THEN SubSeq(dialogue, 1, Len(dialogue) - 1)
    ELSE dialogue

\* build_video_prompt_from_seed: what it returns, or the ValidationError
build_video_prompt_from_seed(seed_data) ==
  LET dialogue == IF seed_data.script # <<>> THEN seed_data.script
                  ELSE seed_data.dialog_script
      normalized_dialogue == normalize_dialogue(dialogue)
      script_line == normalized_dialogue \o <<"marker">>
  IN IF dialogue = <<>>
       THEN [result |-> "ValidationError", action |-> <<>>, optimized_prompt |-> <<>>]
       ELSE [result |-> "ok", action |-> action_template \o script_line,
             optimized_prompt |-> build_optimized_prompt(normalized_dialogue)]

\* a caller that assembles the prompt of one seed twice
PromptCall(seed_data) ==
  [op |-> "build_video_prompt_from_seed", pc |-> "first_call", seed_data |-> seed_data,
   first |-> [result |-> "none", action |-> <<>>, optimized_prompt |-> <<>>],
   second |-> [result |-> "none", action |-> <<>>, optimized_prompt |-> <<>>]]

\* the first call
BVP_First(p) ==
  /\ proc[p].pc = "first_call"
  /\ proc' = [proc EXCEPT ![p].pc = "second_call",
                          ![p].first = build_video_prompt_from_seed(proc[p].seed_data)]
  /\ UNCHANGED <<batchState, posts, jobs, stdoutLog, recoveryLog, registry>>

\* the second call on the same seed
BVP_Second(p) ==
  /\ proc[p].pc = "second_call"
  /\ proc' = [proc EXCEPT ![p].pc = "done",
                          ![p].second = build_video_prompt_from_seed(proc[p].seed_data)]
  /\ UNCHANGED <<batchState, posts, jobs, stdoutLog, recoveryLog, registry>>

\* ------------------------------------------ topics/agents.py PROMPT_2 dialog scripts
\* "for attempt in range(3)" in generate_dialog_scripts
dialog_attempts == 3

\* DialogScripts: min_length = max_length = 5 for each of the three lists
DialogScriptsLength == 5

\* the counts generate_dialog_scripts is called with: 1 by
\* generate_lifestyle_topics, the default 5 by discover_topics_endpoint
RequiredCounts == {1, 5}

\* what the chat model returns, as far as parsing can tell: whether the text
\* starts under a known heading, and the number of scripts under each heading
BucketCounts == {0, 1, 5, 6}
Prompt2Responses ==
  [headings : BOOLEAN, problem_agitate_solution : BucketCounts,
   testimonial : BucketCounts, transformation : BucketCounts]
NoPrompt2Response ==
  [headings |-> FALSE, problem_agitate_solution |-> 0, testimonial |-> 0, transformation |-> 0]

\* "buckets[category] = scripts[:max_per_category]"
Truncate(count, max_per_category) == IF count > max_per_category THEN max_per_category ELSE count

\* parse_prompt2_response: the message of the ValidationError it raises, or
\* "ok", with the lengths of the three lists it has built
parse_prompt2_response(response, max_per_category) ==
  LET buckets == [problem_agitate_solution |->
                    Truncate(response.problem_agitate_solution, max_per_category),
                  testimonial |-> Truncate(response.testimonial, max_per_category),
                  transformation |-> Truncate(response.transformation, max_per_category)]
  IN [scripts |-> buckets,
      message |-> IF ~response.headings THEN "PROMPT_2 output missing headings"
                  ELSE IF \/ buckets.problem_agitate_solution # DialogScriptsLength
                          \/ buckets.testimonial # DialogScriptsLength
                          \/ buckets.transformation # DialogScriptsLength
                    THEN "PROMPT_2 response invalid"
                    ELSE "ok"]

\* a caller of generate_dialog_scripts before the first attempt
DialogCall(scripts_required) ==
  [op |-> "generate_dialog_scripts", pc |-> "gd_generate", scripts_required |-> scripts_required,
   attempt |-> 0, response |-> NoPrompt2Response, scripts |-> NoPrompt2Response,
   feedback |-> "none", result |-> "none"]

\* llm.generate_chat returned text
GD_Generate(p) ==
  /\ proc[p].pc = "gd_generate"
  /\ \E response \in Prompt2Responses :
       proc' = [proc EXCEPT ![p].pc = "gd_parse", ![p].attempt = proc[p].attempt + 1,
                            ![p].response = response]
  /\ UNCHANGED <<batchState, posts, jobs, stdoutLog, recoveryLog, registry>>

\* llm.generate_chat raised ThirdPartyError: the call is outside the try block
GD_GenerateError(p) ==
  /\ proc[p].pc = "gd_generate"
  /\ proc' = [proc EXCEPT ![p].pc = "done", ![p].attempt = proc[p].attempt + 1,
                          ![p].result = "ThirdPartyError"]
  /\ UNCHANGED <<batchState, posts, jobs, stdoutLog, recoveryLog, registry>>

\* the try block: parse, compare the lengths with scripts_required, build the
\* trimmed DialogScripts and return it; on ValidationError the feedback goes
\* into the next prompt, and after the last attempt "Unable to produce dialog
\* scripts" is raised
GD_Parse(p) ==
  /\ proc[p].pc = "gd_parse"
  /\ LET required == proc[p].scripts_required
         parsed == parse_prompt2_response(proc[p].response, required)
         message == IF parsed.message # "ok" THEN parsed.message
                    ELSE IF \/ parsed.scripts.problem_agitate_solution < required
                            \/ parsed.scripts.testimonial < required
                            \/ parsed.scripts.transformation < required
                      THEN "PROMPT_2 returned fewer scripts than required"
                      ELSE "ok"
     IN IF message = "ok"
          THEN IF required # DialogScriptsLength
                 THEN proc' = [proc EXCEPT ![p].pc = "done",
                                           ![p].result = "PydanticValidationError"]
                 ELSE proc' = [proc EXCEPT
                                 ![p].pc = "done", ![p].result = "ok",
                                 ![p].scripts = [NoPrompt2Response EXCEPT
                                                   !.headings = TRUE,
                                                   !.problem_agitate_solution = required,
                                                   !.testimonial = required,
                                                   !.transformation = required]]
          ELSE IF proc[p].attempt < dialog_attempts
            THEN proc' = [proc EXCEPT ![p].pc = "gd_generate", ![p].feedback = message]
            ELSE proc' = [proc EXCEPT ![p].pc = "done", ![p].result = "ValidationError",
                                      ![p].feedback = message]
  /\ UNCHANGED <<batchState, posts, jobs, stdoutLog, recoveryLog, registry>>

\* ------------------------------------------------------- the specifications
\* a post row on which generate_video has succeeded earlier (prompt built,
\* job o accepted by the provider)
EarlierSubmitted(o, prov) ==
  SubmittedPost([NewPost EXCEPT !.prompt = TRUE], NewPost, prov, o, "submitted")

\* Spec: the batch state machine.  A fresh batch in S1_SETUP; each of its
\* posts is either new or has been submitted already (generate_video does not
\* look at the batch's state).
Init ==
  /\ batchState = S1_SETUP
  /\ posts \in [PostIds -> {NewPost} \cup {EarlierSubmitted(1, prov) : prov \in Providers}]
  /\ \A i \in PostIds : posts[i].op # 0 => i = 1
  /\ proc = [p \in Procs |-> Idle]
  /\ jobs = [o \in OpIds |-> IF o = 1 /\ posts[1].op = 1 THEN "queued" ELSE "none"]
  /\ stdoutLog = {o \in OpIds : jobs[o] # "none"}
  /\ recoveryLog = <<>>
  /\ registry = NoTopics

PollerNextStep ==
  \/ PollFetch
  \/ PollNext
  \/ P_CheckError
  \/ VeoCheck
  \/ SoraCheck
  \/ Transfer
  \/ StoreCompleted
  \/ QA_ReadState
  \/ QA_ReadPosts
  \/ QA_Write
  \/ MarkFailed
  \/ MarkProcessing
  \/ SoraProgress

Next ==
  \/ \E p \in ApiProcs, t \in BatchState : AdvanceStart(p, t)
  \/ \E p \in ApiProcs : UBS_Read(p)
  \/ \E p \in ApiProcs : UBS_Write(p)
  \/ \E p \in ApiProcs : DiscoverStart(p)
  \/ \E p \in ApiProcs : D_Read(p)
  \/ \E p \in ApiProcs : D_Generate(p)
  \/ \E p \in ApiProcs, i \in PostIds : BP_Start(p, i)
  \/ \E p \in ApiProcs : BP_Write(p)
  \/ \E p \in ApiProcs : MT_ReadState(p)
  \/ \E p \in ApiProcs : MT_ReadPosts(p)
  \/ \E p \in ApiProcs : MT_Write(p)
  \/ \E i \in PostIds : SchedulePost(i)
  \/ \E p \in ApiProcs : CP_Start(p)
  \/ \E p \in ApiProcs : CP_ReadState(p)
  \/ \E p \in ApiProcs : CP_ReadPosts(p)
  \/ \E p \in ApiProcs : CP_UpdatePost(p)
  \/ \E p \in ApiProcs : CP_WriteState(p)
  \/ \E o \in OpIds : JobAdvance(o)
  \/ PollerNextStep
  \/ \E p \in ApiProcs : Return(p)

Spec == Init /\ [][Next]_vars

\* SpecVideo: video submission, polling and recovery on a batch whose prompts
\* are built (S5_PROMPTS_BUILT); a post may still lack its prompt when the
\* batch was advanced by hand.
InitVideo ==
  /\ batchState = S5_PROMPTS_BUILT
  /\ posts \in [PostIds -> {NewPost, [NewPost EXCEPT !.prompt = TRUE]}]
  /\ proc = [p \in Procs |-> Idle]
  /\ jobs = [o \in OpIds |-> "none"]
  /\ stdoutLog = {}
  /\ recoveryLog = <<>>
  /\ registry = NoTopics

NextVideo ==
  \/ \E p \in ApiProcs, i \in PostIds, prov \in Providers : GV_Start(p, i, prov)
  \/ \E p \in ApiProcs : GV_Read(p)
  \/ \E p \in ApiProcs : GV_SubmitFail(p)
  \/ \E p \in ApiProcs : GV_SubmitOk(p)
  \/ \E p \in ApiProcs : GV_StoreOk(p)
  \/ \E p \in ApiProcs : GV_StoreFail(p)
  \/ \E p \in ApiProcs : GV_Recovery(p)
  \/ \E p \in ApiProcs, prov \in Providers : GA_Start(p, prov)
  \/ \E p \in ApiProcs : GA_Read(p)
  \/ \E p \in ApiProcs : GA_Next(p)
  \/ \E p \in ApiProcs : GA_SubmitFail(p)
  \/ \E p \in ApiProcs : GA_SubmitOk(p)
  \/ \E p \in ApiProcs : GA_StoreOk(p)
  \/ \E p \in ApiProcs : GA_StoreFail(p)
  \/ \E p \in ApiProcs : GA_Recovery(p)
  \/ \E o \in OpIds : JobAdvance(o)
  \/ PollerNextStep
  \/ RecoveryNextStep
  \/ \E p \in ApiProcs : Return(p)

SpecVideo == InitVideo /\ [][NextVideo]_vars

\* SpecVideoFair: SpecVideo with the scheduling the processes have: the
\* poller loop runs forever on its interval, a started recovery run goes
\* through its records, the provider works on every accepted job.
SpecVideoFair ==
  /\ SpecVideo
  /\ WF_vars(PollerNextStep)
  /\ WF_vars(RecoveryNextStep)
  /\ \A o \in OpIds : WF_vars(JobAdvance(o))

\* SpecResubmit: video generation requested more than once for a post.  The
\* provider accepts every request as a new job, so there are NumCohortOps jobs.
InitResubmit ==
  /\ batchState = S5_PROMPTS_BUILT
  /\ posts = [i \in PostIds |-> [NewPost EXCEPT !.prompt = TRUE]]
  /\ proc = [p \in Procs |-> Idle]
  /\ jobs = [o \in CohortOpIds |-> "none"]
  /\ stdoutLog = {}
  /\ recoveryLog = <<>>
  /\ registry = NoTopics

NextResubmit ==
  \/ \E p \in ApiProcs, i \in PostIds, prov \in Providers : GV_Start(p, i, prov)
  \/ \E p \in ApiProcs : GV_Read(p)
  \/ \E p \in ApiProcs : GV_SubmitFail(p)
  \/ \E p \in ApiProcs : GV_SubmitOk(p)
  \/ \E p \in ApiProcs : GV_StoreOk(p)
  \/ \E p \in ApiProcs : GV_StoreFail(p)
  \/ \E p \in ApiProcs : GV_Recovery(p)
  \/ \E p \in ApiProcs, prov \in Providers : GA_Start(p, prov)
  \/ \E p \in ApiProcs : GA_Read(p)
  \/ \E p \in ApiProcs : GA_Next(p)
  \/ \E p \in ApiProcs : GA_SubmitFail(p)
  \/ \E p \in ApiProcs : GA_SubmitOk(p)
  \/ \E p \in ApiProcs : GA_StoreOk(p)
  \/ \E p \in ApiProcs : GA_StoreFail(p)
  \/ \E p \in ApiProcs : GA_Recovery(p)
  \/ \E o \in CohortOpIds : JobAdvance(o)
  \/ PollerNextStep
  \/ \E p \in ApiProcs : Return(p)

SpecResubmit == InitResubmit /\ [][NextResubmit]_vars

\* SpecFanOut: "generate all" on a batch of NumCohort posts, some with a prompt
\* and some without; the provider has room for NumCohortOps jobs.
InitFanOut ==
  /\ batchState = S5_PROMPTS_BUILT
  /\ posts \in [CohortIds -> {NewPost, [NewPost EXCEPT !.prompt = TRUE]}]
  /\ proc = [p \in Procs |-> Idle]
  /\ jobs = [o \in CohortOpIds |-> "none"]
  /\ stdoutLog = {}
  /\ recoveryLog = <<>>
  /\ registry = NoTopics

NextFanOut ==
  \/ \E p \in ApiProcs, prov \in Providers : GA_Start(p, prov)
  \/ \E p \in ApiProcs : GA_Read(p)
  \/ \E p \in ApiProcs : GA_Next(p)
  \/ \E p \in ApiProcs : GA_SubmitFail(p)
  \/ \E p \in ApiProcs : GA_SubmitOk(p)
  \/ \E p \in ApiProcs : GA_StoreOk(p)
  \/ \E p \in ApiProcs : GA_StoreFail(p)
  \/ \E p \in ApiProcs : GA_Recovery(p)
  \/ \E p \in ApiProcs : Return(p)

SpecFanOut == InitFanOut /\ [][NextFanOut]_vars

\* SpecFanOutRace: NumRacers "generate all" requests for the same batch in
\* flight at once.
InitFanOutRace ==
  /\ batchState = S5_PROMPTS_BUILT
  /\ posts = [i \in PostIds |-> [NewPost EXCEPT !.prompt = TRUE]]
  /\ proc = [p \in 0..NumRacers |-> Idle]
  /\ jobs = [o \in CohortOpIds |-> "none"]
  /\ stdoutLog = {}
  /\ recoveryLog = <<>>
  /\ registry = NoTopics

NextFanOutRace ==
  \/ \E p \in Racers, prov \in Providers : GA_Start(p, prov)
  \/ \E p \in Racers : GA_Read(p)
  \/ \E p \in Racers : GA_Next(p)
  \/ \E p \in Racers : GA_SubmitFail(p)
  \/ \E p \in Racers : GA_SubmitOk(p)
  \/ \E p \in Racers : GA_StoreOk(p)
  \/ \E p \in Racers : GA_StoreFail(p)
  \/ \E p \in Racers : GA_Recovery(p)
  \/ \E p \in Racers : Return(p)

SpecFanOutRace == InitFanOutRace /\ [][NextFanOutRace]_vars

\* SpecPoll: the poller at work on posts submitted earlier (post i as job i),
\* while the provider works on the jobs and generate_video requests come in.
InitPoll ==
  /\ batchState = S5_PROMPTS_BUILT
  /\ posts \in [PostIds -> UNION {{EarlierSubmitted(o, prov) : prov \in Providers} : o \in CohortOpIds}]
  /\ \A i \in PostIds : posts[i].op = i
  /\ proc = [p \in Procs |-> Idle]
  /\ jobs = [o \in CohortOpIds |-> IF o \in PostIds THEN "queued" ELSE "none"]
  /\ stdoutLog = {o \in CohortOpIds : jobs[o] # "none"}
  /\ recoveryLog = <<>>
  /\ registry = NoTopics

NextPoll ==
  \/ \E p \in ApiProcs, i \in PostIds, prov \in Providers : GV_Start(p, i, prov)
  \/ \E p \in ApiProcs : GV_Read(p)
  \/ \E p \in ApiProcs : GV_SubmitFail(p)
  \/ \E p \in ApiProcs : GV_SubmitOk(p)
  \/ \E p \in ApiProcs : GV_StoreOk(p)
  \/ \E p \in ApiProcs : GV_StoreFail(p)
  \/ \E p \in ApiProcs : GV_Recovery(p)
  \/ \E o \in CohortOpIds : JobAdvance(o)
  \/ PollerNextStep
  \/ \E p \in ApiProcs : Return(p)

SpecPoll == InitPoll /\ [][NextPoll]_vars

\* SpecRegistry: NumAdders callers of add_topic_to_registry (topic discovery
\* requests) on a registry in which a topic is new or has been seen once.
InitRegistry ==
  /\ batchState = S1_SETUP
  /\ posts = [i \in PostIds |-> NewPost]
  /\ proc = [p \in Adders |-> AdderIdle]
  /\ jobs = [o \in OpIds |-> "none"]
  /\ stdoutLog = {}
  /\ recoveryLog = <<>>
  /\ registry \in [TopicKeys -> 0..1]

NextRegistry ==
  \/ \E p \in Adders, k \in TopicKeys : add_topic_to_registry(p, k)
  \/ \E p \in Adders : ATR_Insert(p)
  \/ \E p \in Adders : ATR_InsertError(p)
  \/ \E p \in Adders : ATR_Select(p)
  \/ \E p \in Adders : ATR_Update(p)
  \/ \E p \in Adders : ATR_Return(p)

SpecRegistry == InitRegistry /\ [][NextRegistry]_vars

\* SpecDedup: one call of deduplicate_topics on up to MaxNew candidates and
\* up to MaxExisting registry rows.
InitDedup ==
  /\ batchState = S1_SETUP
  /\ posts = [i \in PostIds |-> NewPost]
  /\ \E n \in 0..MaxNew, m \in 0..MaxExisting :
       \E new_topics \in [1..n -> TopicDicts(FALSE)], existing_topics \in [1..m -> TopicDicts(TRUE)],
          threshold \in Thresholds :
         proc = [p \in {1} |-> DedupCall(new_topics, existing_topics, threshold)]
  /\ jobs = [o \in OpIds |-> "none"]
  /\ stdoutLog = {}
  /\ recoveryLog = <<>>
  /\ registry = NoTopics

NextDedup == DD_Loop(1)

SpecDedup == InitDedup /\ [][NextDedup]_vars

\* SpecChunk: one call of _generate_prompt1_chunk.
InitChunk ==
  /\ batchState = S1_SETUP
  /\ posts = [i \in PostIds |-> NewPost]
  /\ \E desired_topics \in ChunkSizes : proc = [p \in {1} |-> ChunkCall(desired_topics)]
  /\ jobs = [o \in OpIds |-> "none"]
  /\ stdoutLog = {}
  /\ recoveryLog = <<>>
  /\ registry = NoTopics

NextChunk ==
  \/ GC_Generate(1)
  \/ GC_GenerateError(1)
  \/ GC_Parse(1)

SpecChunk == InitChunk /\ [][NextChunk]_vars

\* SpecDuration: one call of parse_prompt1_response on a response of ten items
\* of which one varies in the length of its script, the duration the model
\* estimated for it and its summary.
InitDuration ==
  /\ batchState = S1_SETUP
  /\ posts = [i \in PostIds |-> NewPost]
  /\ \E k \in BatchIndices, words \in WordCounts, estimated \in {0, 9},
        overlap \in BOOLEAN :
       proc = [p \in {1} |->
                 ParseCall([BaseItems EXCEPT ![k].script.words = words,
                                             ![k].has_duration = estimated > 0,
                                             ![k].estimated_duration_s = estimated,
                                             ![k].summary_overlap = overlap])]
  /\ jobs = [o \in OpIds |-> "none"]
  /\ stdoutLog = {}
  /\ recoveryLog = <<>>
  /\ registry = NoTopics

NextParse ==
  \/ PP_Normalize(1)
  \/ PP_Schema(1)
  \/ PP_Items(1)
  \/ PP_RoundRobin(1)
  \/ PP_UniqueCtas(1)

SpecDuration == InitDuration /\ [][NextParse]_vars

\* SpecCta: one call of parse_prompt1_response on a response of ten items of
\* which one may end in the trailing sentence of an earlier one, be a word too
\* long, have a sentence before the trailing one, or have another topic.
InitCta ==
  /\ batchState = S1_SETUP
  /\ posts = [i \in PostIds |-> NewPost]
  /\ \E i, j, r \in BatchIndices, words \in {18, 21},
        prev \in {NoSentence, Sentence(0)}, t \in Topics :
       /\ i <= j
       /\ proc = [p \in {1} |->
                    ParseCall([[BaseItems EXCEPT ![j].script = Script(words, prev, Sentence(i))]
                                 EXCEPT ![r].topic = t])]
  /\ jobs = [o \in OpIds |-> "none"]
  /\ stdoutLog = {}
  /\ recoveryLog = <<>>
  /\ registry = NoTopics

SpecCta == InitCta /\ [][NextParse]_vars

\* SpecPromptBuild: build_video_prompt_from_seed called twice on one seed whose
\* script has up to MaxScript pieces.
InitPromptBuild ==
  /\ batchState = S4_SCRIPTED
  /\ posts = [i \in PostIds |-> NewPost]
  /\ \E seed_data \in Seeds : proc = [p \in {1} |-> PromptCall(seed_data)]
  /\ jobs = [o \in OpIds |-> "none"]
  /\ stdoutLog = {}
  /\ recoveryLog = <<>>
  /\ registry = NoTopics

NextPromptBuild ==
  \/ BVP_First(1)
  \/ BVP_Second(1)

SpecPromptBuild == InitPromptBuild /\ [][NextPromptBuild]_vars

\* SpecDialog: one call of generate_dialog_scripts.
InitDialog ==
  /\ batchState = S1_SETUP
  /\ posts = [i \in PostIds |-> NewPost]
  /\ \E scripts_required \in RequiredCounts :
       proc = [p \in {1} |-> DialogCall(scripts_required)]
  /\ jobs = [o \in OpIds |-> "none"]
  /\ stdoutLog = {}
  /\ recoveryLog = <<>>
  /\ registry = NoTopics

NextDialog ==
  \/ GD_Generate(1)
  \/ GD_GenerateError(1)
  \/ GD_Parse(1)

SpecDialog == InitDialog /\ [][NextDialog]_vars

\* SpecSeed: a batch as create_batch leaves it, in S1_SETUP with no post row
\* yet and NumPosts posts requested in its post_type_counts, under discovery
\* runs and advance requests, up to NumRacers at once.
InitSeed ==
  /\ batchState = S1_SETUP
  /\ posts = <<>>
  /\ proc = [p \in 0..NumRacers |-> Idle]
  /\ jobs = [o \in OpIds |-> "none"]
  /\ stdoutLog = {}
  /\ recoveryLog = <<>>
  /\ registry = NoTopics

NextSeed ==
  \/ \E p \in Racers : DiscoverStart(p)
  \/ \E p \in Racers : D_Read(p)
  \/ \E p \in Racers : D_Generate(p)
  \/ \E p \in Racers, t \in BatchState : AdvanceStart(p, t)
  \/ \E p \in Racers : UBS_Read(p)
  \/ \E p \in Racers : UBS_Write(p)
  \/ \E p \in Racers : Return(p)

SpecSeed == InitSeed /\ [][NextSeed]_vars

\* SpecScripted: build-prompt requests and advance requests on a seeded batch
\* (S2_SEEDED) with NumCohort posts that have seed data and no prompt yet.
InitScripted ==
  /\ batchState = S2_SEEDED
  /\ posts = [i \in CohortIds |-> NewPost]
  /\ proc = [p \in 0..NumRacers |-> Idle]
  /\ jobs = [o \in OpIds |-> "none"]
  /\ stdoutLog = {}
  /\ recoveryLog = <<>>
  /\ registry = NoTopics

NextScripted ==
  \/ \E p \in Racers, t \in BatchState : AdvanceStart(p, t)
  \/ \E p \in Racers : UBS_Read(p)
  \/ \E p \in Racers : UBS_Write(p)
  \/ \E p \in Racers, i \in CohortIds : BP_Start(p, i)
  \/ \E p \in Racers : BP_Write(p)
  \/ \E p \in Racers : MT_ReadState(p)
  \/ \E p \in Racers : MT_ReadPosts(p)
  \/ \E p \in Racers : MT_Write(p)
  \/ \E p \in Racers : Return(p)

SpecScripted == InitScripted /\ [][NextScripted]_vars

\* SpecPublish: confirm_publish, schedule and advance requests on a batch in
\* S7_PUBLISH_PLAN with NumCohort approved posts, each scheduled or not yet.
ApprovedPost ==
  [NewPost EXCEPT !.prompt = TRUE, !.video_status = "completed", !.url = TRUE,
                  !.qa_pass = TRUE]

InitPublish ==
  /\ batchState = S7_PUBLISH_PLAN
  /\ posts \in [CohortIds -> {ApprovedPost,
                              [ApprovedPost EXCEPT !.scheduled = TRUE,
                                                   !.publish_status = "scheduled"]}]
  /\ proc = [p \in 0..NumRacers |-> Idle]
  /\ jobs = [o \in OpIds |-> "none"]
  /\ stdoutLog = {}
  /\ recoveryLog = <<>>
  /\ registry = NoTopics

NextPublish ==
  \/ \E i \in CohortIds : SchedulePost(i)
  \/ \E p \in Racers : CP_Start(p)
  \/ \E p \in Racers : CP_ReadState(p)
  \/ \E p \in Racers : CP_ReadPosts(p)
  \/ \E p \in Racers : CP_UpdatePost(p)
  \/ \E p \in Racers : CP_UpdateFail(p)
  \/ \E p \in Racers : CP_WriteState(p)
  \/ \E p \in Racers : CP_WriteFail(p)
  \/ \E p \in Racers, t \in BatchState : AdvanceStart(p, t)
  \/ \E p \in Racers : UBS_Read(p)
  \/ \E p \in Racers : UBS_Write(p)
  \/ \E p \in Racers : Return(p)

SpecPublish == InitPublish /\ [][NextPublish]_vars

\* SpecQA: QA review.  A batch whose posts are new or carry a completed video;
\* the requests are advance_batch_state_endpoint and approve_qa.
CompletedEarlier(o, prov) ==
  CompletedPost(EarlierSubmitted(o, prov), EarlierSubmitted(o, prov).meta)

InitQA ==
  /\ batchState = S1_SETUP
  /\ posts \in [PostIds -> {NewPost} \cup {CompletedEarlier(1, prov) : prov \in Providers}]
  /\ \A i \in PostIds : posts[i].op # 0 => i = 1
  /\ proc = [p \in Procs |-> Idle]
  /\ jobs = [o \in OpIds |-> IF o = 1 /\ posts[1].op = 1 THEN "completed" ELSE "none"]
  /\ stdoutLog = {o \in OpIds : jobs[o] # "none"}
  /\ recoveryLog = <<>>
  /\ registry = NoTopics

NextQA ==
  \/ \E p \in ApiProcs, t \in BatchState : AdvanceStart(p, t)
  \/ \E p \in ApiProcs : UBS_Read(p)
  \/ \E p \in ApiProcs : UBS_Write(p)
  \/ \E p \in ApiProcs, i \in PostIds, approved \in BOOLEAN : AQ_Start(p, i, approved)
  \/ \E p \in ApiProcs : AQ_Read(p)
  \/ \E p \in ApiProcs : AQ_Write(p)
  \/ \E p \in ApiProcs : Return(p)

SpecQA == InitQA /\ [][NextQA]_vars

\* SpecPrompts: concurrent build-prompt requests on a batch in S4_SCRIPTED
\* with NumCohort posts, some of which may have their prompt already.
InitPrompts ==
  /\ batchState = S4_SCRIPTED
  /\ posts \in [CohortIds -> {NewPost, [NewPost EXCEPT !.prompt = TRUE]}]
  /\ proc = [p \in 0..NumRacers |-> Idle]
  /\ jobs = [o \in OpIds |-> "none"]
  /\ stdoutLog = {}
  /\ recoveryLog = <<>>
  /\ registry = NoTopics

NextPrompts ==
  \/ \E p \in Racers, i \in CohortIds : BP_Start(p, i)
  \/ \E p \in Racers : BP_Write(p)
  \/ \E p \in Racers : MT_ReadState(p)
  \/ \E p \in Racers : MT_ReadPosts(p)
  \/ \E p \in Racers : MT_Write(p)
  \/ \E p \in Racers : Return(p)

SpecPrompts == InitPrompts /\ [][NextPrompts]_vars

\* ================================================================== claims
\* ------------------------------------------------------------------ C1 (Spec)
\* C1: under any interleaving of advance requests, discovery, the build-prompt
\* auto-advance, the poller's QA auto-advance and confirm_publish, every change
\* of the stored state from s to t has t in the transition table's entry for s.
C1_EveryChangeFollowsTable ==
  [][batchState' # batchState => batchState' \in STATE_TRANSITIONS[batchState]]_vars

\* ------------------------------------------------------------------ C2 (Spec)
\* C2: for every pair (current, target) of the seven states,
\* validate_state_transition(current, target) returns normally exactly when
\* target is in the table entry for current; (S1_SETUP, S4_SCRIPTED) fails,
\* (S6_QA, S4_SCRIPTED) succeeds, (S8_COMPLETE, x) fails for every x.  The
\* function is applied by update_batch_state to the state it has just read.
C2_ValidateIffInTable ==
  [][\A p \in ApiProcs :
       (proc[p].pc = "ubs_read" /\ proc'[p].pc # "ubs_read") =>
         LET current == batchState
             target == proc[p].target
             succeeded == proc'[p].pc = "ubs_write"
             failed == proc'[p].pc = "done" /\ proc'[p].result = "StateTransitionError"
             inTable ==
               \/ current = "S1_SETUP" /\ target = "S2_SEEDED"
               \/ current = "S2_SEEDED" /\ target = "S4_SCRIPTED"
               \/ current = "S4_SCRIPTED" /\ target = "S5_PROMPTS_BUILT"
               \/ current = "S5_PROMPTS_BUILT" /\ target = "S6_QA"
               \/ current = "S6_QA" /\ target \in {"S7_PUBLISH_PLAN", "S4_SCRIPTED", "S5_PROMPTS_BUILT"}
               \/ current = "S7_PUBLISH_PLAN" /\ target = "S8_COMPLETE"
         IN /\ succeeded <=> inTable
            /\ failed <=> ~inTable
            /\ (current = "S1_SETUP" /\ target = "S4_SCRIPTED") => failed
            /\ (current = "S6_QA" /\ target = "S4_SCRIPTED") => succeeded
            /\ current = "S8_COMPLETE" => failed]_vars

\* the rework pair (S6_QA, S4_SCRIPTED) has been validated successfully
C2_Witness ==
  \E p \in ApiProcs :
    /\ proc[p].pc = "ubs_write"
    /\ proc[p].validated
    /\ proc[p].cur = S6_QA
    /\ proc[p].target = S4_SCRIPTED

\* ------------------------------------------------------------------ C3 (Spec)
\* C3: every write of the state field is made by an operation that first
\* called validate_state_transition and had it succeed; nothing writes the
\* field directly.
C3_EveryWriteValidated ==
  [][batchState' # batchState =>
       \E p \in ApiProcs : /\ proc[p].pc = "ubs_write"
                           /\ proc[p].validated
                           /\ proc'[p].pc = "done"]_vars

\* ------------------------------------------------------------------ C4 (Spec)
\* C4: once the stored state is S8_COMPLETE it never changes again, whatever
\* operations run afterwards or were in flight when it was reached.
C4_CompleteIsTerminal ==
  [][batchState = S8_COMPLETE => batchState' = S8_COMPLETE]_vars

C8_ReplayAppliesPollerUpdate ==
  (/\ proc[Recov].pc = "r_replayed"
   /\ proc[Recov].dbstatus = "completed"
   /\ proc[Recov].result # "failed") =>
     LET i == proc[Recov].post
     IN /\ proc[Recov].result = "recovered"
        /\ posts[i].video_status = "completed"
        /\ posts[i].url
        /\ proc[Recov].snap[i].meta \subseteq posts[i].meta

\* ------------------------------------------------------------------ C9 (Spec)
\* C9: a topic discovery that does not succeed fails with ValidationError and
\* leaves the batch in S1_SETUP.
C9_FailedDiscoveryIsValidationError ==
  \A p \in ApiProcs :
    (proc[p].op = "discover" /\ proc[p].pc = "done" /\ proc[p].result # "ok") =>
      proc[p].result = "ValidationError"

\* ----------------------------------------------------------------- C10 (Spec)
\* C10: a topic discovery on a batch in S1_SETUP gets its topics from
\* generate_topics_research_agent and goes on to create the posts.
C10_DiscoveryReachesPostCreation ==
  [][\A p \in ApiProcs :
       (proc[p].pc = "d_generate" /\ proc'[p].pc # "d_generate") =>
         proc'[p].pc = "d_items"]_vars

\* ---------------------------------------------------------------- C11 (SpecQA)
\* C11: a batch moves from S6_QA to S7_PUBLISH_PLAN only if, at the time of the
\* transition, it has at least one post and every post has qa_pass true.
C11_PublishPlanOnlyWhenAllApproved ==
  [][(batchState = S6_QA /\ batchState' = S7_PUBLISH_PLAN) =>
       /\ DOMAIN posts # {}
       /\ \A i \in DOMAIN posts : posts[i].qa_pass]_vars

\* ---------------------------------------------------------------- C12 (SpecQA)
\* C12: qa_pass is set only on a post whose video_status is "completed".
C12_ApprovalOnlyOnCompleted ==
  [][\A i \in DOMAIN posts :
       (~posts[i].qa_pass /\ posts'[i].qa_pass) => posts[i].video_status = "completed"]_vars

\* ------------------------------------------------------------ C13 (SpecVideo)
\* C13: no provider submission is made for a post whose video_prompt_json is
\* missing: generate_video rejects the request with a validation error,
\* generate_all_videos counts the post as skipped, and neither calls the
\* provider nor changes the post.
C13_NoSubmissionWithoutPrompt ==
  [][\A p \in ApiProcs :
       /\ (/\ proc[p].pc = "gv_read"
           /\ proc'[p] # proc[p]
           /\ ~posts[proc[p].post].prompt) =>
             /\ proc'[p].pc = "done"
             /\ proc'[p].result = "ValidationError"
             /\ jobs' = jobs /\ posts' = posts /\ stdoutLog' = stdoutLog
       /\ (/\ proc[p].pc = "ga_next"
           /\ proc'[p] # proc[p]
           /\ proc[p].todo # {}
           /\ ~proc[p].snap[Min(proc[p].todo)].prompt) =>
             /\ proc'[p].pc = "ga_next"
             /\ proc'[p].skipped = proc[p].skipped + 1
             /\ jobs' = jobs /\ posts' = posts /\ stdoutLog' = stdoutLog
       /\ proc'[p].pc \in {"gv_submit", "gv_store", "ga_submit", "ga_store"} =>
             posts'[proc'[p].post].prompt]_vars

\* generate_video has rejected a request for a post without a prompt, which is
\* still untouched
C13_Witness ==
  \E p \in ApiProcs, i \in DOMAIN posts :
    /\ proc[p].op = "generate_video"
    /\ proc[p].pc = "done"
    /\ proc[p].result = "ValidationError"
    /\ ~posts[i].prompt
    /\ posts[i] = NewPost

\* ---------------------------------------------------------- C14 (SpecPrompts)
\* C14: when two build-prompt requests that complete the cohort are processed
\* concurrently, the new batch state is written exactly once: a check never
\* writes S5_PROMPTS_BUILT into a batch that is already in S5_PROMPTS_BUILT.
C14_TransitionWrittenOnce ==
  [][\A p \in Racers :
       (proc[p].pc = "mt_write" /\ proc'[p].pc # "mt_write") =>
         batchState # S5_PROMPTS_BUILT]_vars

\* ---------------------------------------------------------- C15 (SpecPrompts)
\* C15: the all-prompts-built check, run on a batch it finds in
\* S5_PROMPTS_BUILT, raises nothing and does not write the batch state (so a
\* second run leaves what the first left); it writes only when it found
\* S4_SCRIPTED.
C15_RepeatCheckIsNoOp ==
  [][\A p \in Racers :
       /\ (/\ proc[p].pc = "mt_read_state"
           /\ proc'[p] # proc[p]
           /\ batchState = S5_PROMPTS_BUILT) =>
             /\ proc'[p].pc = "mt_read_posts"
             /\ proc'[p].cur = S5_PROMPTS_BUILT
             /\ batchState' = batchState
       /\ (/\ proc[p].pc = "mt_read_posts"
           /\ proc'[p] # proc[p]
           /\ proc[p].cur = S5_PROMPTS_BUILT) =>
             /\ proc'[p].pc = "done"
             /\ proc'[p].result = "ok"
             /\ batchState' = batchState
       /\ proc'[p].pc = "mt_write" => proc'[p].cur = S4_SCRIPTED]_vars

\* a check has found the batch already in S5_PROMPTS_BUILT with all prompts built
C15_Witness ==
  \E p \in Racers :
    /\ proc[p].pc = "mt_read_posts"
    /\ proc[p].cur = S5_PROMPTS_BUILT
    /\ batchState = S5_PROMPTS_BUILT
    /\ \A i \in DOMAIN posts : posts[i].prompt

\* -------------------------------------------------------- C16 (SpecVideoFair)
\* C16: a batch in S5_PROMPTS_BUILT all of whose posts are completed, whether
\* the last one was completed by the poller or by a recovery replay, eventually
\* reaches S6_QA.
C16_AllCompletedLeadsToQA ==
  (/\ batchState = S5_PROMPTS_BUILT
   /\ \A i \in DOMAIN posts : posts[i].video_status = "completed")
    ~> (batchState = S6_QA)

\* --------------------------------------------------------- C17 (SpecResubmit)
\* C17: under generate_video, generate_all_videos and poll steps a post's stored
\* video_status only moves forward along pending -> queued|submitted ->
\* processing -> completed|failed (a value the submit path stores counts as
\* submitted), and never leaves completed or failed.
C17_StatusOnlyMovesForward ==
  [][\A i \in DOMAIN posts :
       LET rank(s) == CASE s = "pending" -> 0
                        [] s = "processing" -> 2
                        [] s \in {"completed", "failed"} -> 3
                        [] OTHER -> 1
           old == posts[i].video_status
           new == posts'[i].video_status
       IN  /\ rank(new) >= rank(old)
           /\ rank(old) = 3 => new = old]_vars

\* ----------------------------------------------------------- C18 (SpecFanOut)
\* C18: generate_all_videos goes through every post of the batch whatever fails
\* on the way: at each point of the loop the posts counted as submitted or
\* skipped, the post in hand and the posts still to do add up to the batch, the
\* request returns normally, and submitted_count goes up by one exactly when the
\* request's update of a post row (its operation id stored) has succeeded.
C18_EveryPostAttemptedAndCounted ==
  /\ [](\A p \in ApiProcs :
          proc[p].op = "generate_all_videos" =>
            LET inHand == IF proc[p].pc \in {"ga_submit", "ga_store", "ga_recovery"} THEN 1 ELSE 0
            IN /\ proc[p].pc \in {"ga_next", "ga_submit", "ga_store", "ga_recovery"} =>
                    proc[p].submitted + proc[p].skipped + inHand + Cardinality(proc[p].todo)
                      = Cardinality(DOMAIN posts)
               /\ proc[p].pc = "done" =>
                    /\ proc[p].result = "ok"
                    /\ proc[p].submitted + proc[p].skipped = Cardinality(DOMAIN posts))
  /\ [][\A p \in ApiProcs :
          (proc[p].op = "generate_all_videos" /\ proc'[p].op = "generate_all_videos") =>
            LET stored == /\ proc[p].pc = "ga_store"
                          /\ posts[proc[p].post].op # proc[p].opid
                          /\ posts'[proc[p].post].op = proc[p].opid
            IN /\ stored => proc'[p].submitted = proc[p].submitted + 1
               /\ ~stored => proc'[p].submitted = proc[p].submitted]_vars

\* a request has returned after one post's submission was persisted and another
\* post's store write failed
C18_Witness ==
  \E p \in ApiProcs :
    /\ proc[p].op = "generate_all_videos"
    /\ proc[p].pc = "done"
    /\ proc[p].submitted >= 1
    /\ proc[p].dbfailed # {}
    /\ proc[p].skipped >= 1

\* ------------------------------------------------------- C19 (SpecFanOutRace)
\* C19: generate_all_videos calls the provider's submit for a post only while
\* the post's stored video_status is not submitted, processing or completed.
C19_NoSubmitForSubmittedPost ==
  [][\A p \in Racers :
       (/\ proc[p].op = "generate_all_videos"
        /\ proc[p].pc = "ga_submit"
        /\ proc'[p].pc # "ga_submit")
         => posts[proc[p].post].video_status \notin {"submitted", "processing", "completed"}]_vars

\* -------------------------------------------------------- C20 (SpecVideoFair)
\* C20: a post that has an operation id and whose stored video_status is not
\* yet completed or failed, whatever value the submit path stored, is
\* eventually taken up by a poll cycle, which checks its status with the
\* provider.
C20_EverySubmittedPostIsPolled ==
  \A i \in PostIds :
    (posts[i].op # 0 /\ posts[i].video_status \notin {"completed", "failed"})
      ~> (/\ proc[Poller].op = "poll"
          /\ proc[Poller].post = i
          /\ proc[Poller].pc \notin {"idle", "poll_next"})

C22_FailureAlwaysStored ==
  [][(/\ proc[Poller].pc = "mark_failed"
      /\ proc'[Poller].pc # "mark_failed"
      /\ jobs[proc[Poller].snap[proc[Poller].post].op] = "failed") =>
       /\ posts'[proc[Poller].post].video_status = "failed"
       /\ "error" \in posts'[proc[Poller].post].meta]_vars

\* C22, amended: when the provider reports the terminal failure of a post's
\* job, the poller's step stores video_status = failed with the error detail on
\* the post, or, if that update raises, leaves the post as it is (to be polled
\* again); a post stored as failed is not taken up by a poll cycle and is not
\* changed by any step of the poller.
C22_FailureStoredUnlessUpdateFails ==
  [][/\ (proc[Poller].pc = "mark_failed" /\ proc'[Poller].pc # "mark_failed") =>
          \/ posts' = posts
          \/ /\ posts'[proc[Poller].post].video_status = "failed"
             /\ posts'[proc[Poller].post].meta = FailureKeys
             /\ \A j \in DOMAIN posts \ {proc[Poller].post} : posts'[j] = posts[j]
     /\ \A i \in DOMAIN posts :
          posts[i].video_status = "failed" =>
            /\ proc'[Poller] # proc[Poller] => posts'[i] = posts[i]
            /\ (proc[Poller].pc = "idle" /\ proc'[Poller].pc = "poll_next") =>
                 i \notin proc'[Poller].todo
            /\ (proc[Poller].pc = "poll_next" /\ proc'[Poller].pc \in {"veo_check", "sora_check"}) =>
                 proc'[Poller].post # i]_vars

\* the provider reported a failed job, the poller has stored failed on the post
\* and has since started a further cycle for another reason or gone idle
C22_Witness ==
  \E i \in DOMAIN posts :
    /\ posts[i].video_status = "failed"
    /\ posts[i].meta = FailureKeys
    /\ posts[i].op # 0
    /\ jobs[posts[i].op] = "failed"
    /\ proc[Poller].pc = "idle"

C24_UseCountNeverDecreases ==
  [][\A k \in TopicKeys : registry'[k] >= registry[k]]_vars

\* ---------------------------------------------------------------- C25 (SpecQA)
\* C25: update_batch_state with a target that is not allowed from the stored
\* state raises StateTransitionError carrying the current state, the target and
\* the allowed set, and changes nothing in the store.
C25_InvalidTargetRaisesAndChangesNothing ==
  [][\A p \in ApiProcs :
       (/\ proc[p].pc = "ubs_read"
        /\ proc'[p].pc # "ubs_read"
        /\ proc[p].target \notin STATE_TRANSITIONS[batchState]) =>
         /\ proc'[p].pc = "done"
         /\ proc'[p].result = "StateTransitionError"
         /\ proc'[p].details.current_state = batchState
         /\ proc'[p].details.target_state = proc[p].target
         /\ proc'[p].details.allowed_transitions = STATE_TRANSITIONS[batchState]
         /\ batchState' = batchState
         /\ posts' = posts]_vars

\* an advance from S2_SEEDED to S8_COMPLETE has been refused
C25_Witness ==
  \E p \in ApiProcs :
    /\ proc[p].op = "advance"
    /\ proc[p].pc = "done"
    /\ proc[p].result = "StateTransitionError"
    /\ batchState = S2_SEEDED
    /\ proc[p].details = [current_state |-> S2_SEEDED, target_state |-> S8_COMPLETE,
                          allowed_transitions |-> {S4_SCRIPTED}]

\* ------------------------------------------------------------- C26 (SpecDedup)
\* C26: deduplicate_topics completes normally, and in what it returns no
\* candidate is as similar as the threshold to a registry topic or to another
\* returned candidate.
C26_DedupCompletesAndFilters ==
  \A p \in DOMAIN proc :
    (proc[p].op = "deduplicate_topics" /\ proc[p].pc = "done") =>
      /\ proc[p].result = "ok"
      /\ \A i \in DOMAIN proc[p].unique_topics :
           /\ \A k \in DOMAIN proc[p].existing_topics :
                calculate_topic_similarity(proc[p].unique_topics[i], proc[p].existing_topics[k])
                  < proc[p].threshold
           /\ \A j \in DOMAIN proc[p].unique_topics :
                j < i => calculate_topic_similarity(proc[p].unique_topics[i], proc[p].unique_topics[j])
                           < proc[p].threshold

\* ------------------------------------------------------------- C27 (SpecChunk)
\* C27: _generate_prompt1_chunk makes at most 4 text-generation attempts and
\* ends either with exactly the requested number of items, taken from a response
\* that passed every validation, or with ValidationError.
C27_ChunkReturnsValidOrValidationError ==
  \A p \in DOMAIN proc :
    proc[p].op = "_generate_prompt1_chunk" =>
      /\ proc[p].attempt <= max_attempts
      /\ proc[p].pc = "done" =>
           \/ /\ proc[p].result = "ok"
              /\ proc[p].items = proc[p].desired_topics
              /\ parse_prompt1_response(proc[p].response) = "ok"
           \/ proc[p].result = "ValidationError"

\* ------------------------------------------------------------- C28 (SpecChunk)
\* C28: a ThirdPartyError of the text-generation call surfaces to the caller of
\* _generate_prompt1_chunk only from the last attempt of the budget; from an
\* earlier attempt the loop goes on to the next attempt.
C28_TransportFailureRetried ==
  [][\A p \in DOMAIN proc :
       (/\ proc[p].op = "_generate_prompt1_chunk"
        /\ proc[p].pc = "gc_generate"
        /\ proc'[p].result = "ThirdPartyError") =>
         proc'[p].attempt = max_attempts]_vars

\* C29: in topic-batch validation the spoken duration of a script is
\* ceil(word_count / 2.6): 16 words give 7 and the script is not rejected for
\* its length; a script whose value exceeds 8 (21 words give 9) makes the
\* validation end in ValidationError with the script as it was received,
\* neither accepted nor altered; an accepted item carries the duration of the
\* script that was received.
C29_LongScriptRejectedNotAltered ==
  /\ spoken_duration(16) = 7
  /\ spoken_duration(21) = 9
  /\ \A p \in DOMAIN proc :
       (proc[p].op = "parse_prompt1_response" /\ proc[p].pc = "done") =>
         \A i \in BatchIndices :
           /\ spoken_duration(proc[p].raw[i].script.words) > 8 =>
                /\ proc[p].result = "ValidationError"
                /\ proc[p].items[i].script = proc[p].raw[i].script
           /\ (proc[p].raw[i].script.words = 16 /\ proc[p].result = "ValidationError") =>
                proc[p].message \notin {"PROMPT_1 script too short", "Script exceeds 8 seconds",
                                        "Script under 7 seconds", "PROMPT_1 response invalid"}
           /\ proc[p].result = "ok" =>
                proc[p].items[i].estimated_duration_s =
                  spoken_duration(proc[p].raw[i].script.words)

\* C30 as stated: whenever the validation of a batch has ended and two of its
\* items have the same extracted call-to-action, it has ended in the
\* ValidationError "CTA reuse detected" whose details name two different items
\* with that call-to-action, the earlier one as first_index.
C30_CtaReuseAlwaysReported ==
  \A p \in DOMAIN proc :
    (/\ proc[p].op = "parse_prompt1_response"
     /\ proc[p].pc = "done"
     /\ \E i, j \in BatchIndices :
          i < j /\ extract_soft_cta(proc[p].items[i].script)
                     = extract_soft_cta(proc[p].items[j].script)) =>
      /\ proc[p].result = "ValidationError"
      /\ proc[p].message = "CTA reuse detected"

\* C30: when the validation of a batch that passes the checks made before the
\* call-to-action check (script length, schema, duration, summary, topic
\* rotation) has ended, and two of its items as validated have the same
\* extracted call-to-action, it has ended in the ValidationError "CTA reuse
\* detected" whose details name two different items with that
\* call-to-action: first_index the first item that has it, duplicate_index
\* the first item that repeats any earlier one.
C30_CtaReuseReportedAfterOtherChecks ==
  \A p \in DOMAIN proc :
    (/\ proc[p].op = "parse_prompt1_response"
     /\ proc[p].pc = "done"
     /\ \A i \in BatchIndices :
          /\ ~TooShort(proc[p].raw[i])
          /\ ResearchAgentItem(proc[p].items[i])
          /\ validate_item(proc[p].items[i]) = "ok"
     /\ validate_round_robin(proc[p].items) = "ok"
     /\ \E i, j \in BatchIndices :
          i < j /\ extract_soft_cta(proc[p].items[i].script)
                     = extract_soft_cta(proc[p].items[j].script)) =>
      /\ proc[p].result = "ValidationError"
      /\ proc[p].message = "CTA reuse detected"
      /\ LET first == proc[p].details.first_index + 1
             duplicate == proc[p].details.duplicate_index + 1
             cta(i) == extract_soft_cta(proc[p].items[i].script)
         IN /\ first \in BatchIndices /\ duplicate \in BatchIndices
            /\ first < duplicate
            /\ cta(first) = proc[p].details.cta
            /\ cta(duplicate) = proc[p].details.cta
            /\ \A i \in BatchIndices : i < first => cta(i) # proc[p].details.cta
            /\ \A i, j \in BatchIndices : (i < j /\ j < duplicate) => cta(i) # cta(j)

\* a batch whose third and ninth items end in the same sentence was refused
\* with the indices 2 and 8
C30_Witness ==
  \E p \in DOMAIN proc :
    /\ proc[p].op = "parse_prompt1_response"
    /\ proc[p].pc = "done"
    /\ proc[p].message = "CTA reuse detected"
    /\ proc[p].details.first_index = 2
    /\ proc[p].details.duplicate_index = 8

\* ------------------------------------------------------------- C31 (SpecDedup)
\* C31: calculate_topic_similarity is exactly 1.0 for any candidate and any
\* topic it is compared with whose title, rotation and cta are pairwise
\* identical.
C31_IdenticalTopicsScoreOne ==
  \A p \in DOMAIN proc :
    proc[p].op = "deduplicate_topics" =>
      \A i \in DOMAIN proc[p].new_topics :
        \A k \in DOMAIN proc[p].existing_topics :
          LET topic == proc[p].new_topics[i]
              existing == proc[p].existing_topics[k]
          IN (/\ topic.title = existing.title
              /\ topic.rotation = existing.rotation
              /\ topic.cta = existing.cta) =>
               calculate_topic_similarity(topic, existing) = SimScale

\* ------------------------------------------------------- C32 (SpecPromptBuild)
\* C32: two calls of build_video_prompt_from_seed on the same seed give the
\* same output, and in the action text of every output the closing sentence
\* "(After delivering the dialogue, ...)" stands exactly once, whatever the
\* script was.
C32_SameOutputAndOneMarker ==
  \A p \in DOMAIN proc :
    proc[p].op = "build_video_prompt_from_seed" =>
      /\ proc[p].pc = "done" => proc[p].first = proc[p].second
      /\ proc[p].first.result = "ok" =>
           Cardinality({k \in DOMAIN proc[p].first.action :
                          proc[p].first.action[k] = "marker"}) = 1

\* ------------------------------------------------------------ C33 (SpecDialog)
\* C33: generate_dialog_scripts makes at most 3 text-generation attempts and
\* ends, for every required count, either by returning exactly that many
\* scripts in each of the three lists, or by raising ValidationError after a
\* response that could not be read or in which a list was shorter than
\* required.
C33_DialogReturnsRequiredOrValidationError ==
  \A p \in DOMAIN proc :
    proc[p].op = "generate_dialog_scripts" =>
      /\ proc[p].attempt <= dialog_attempts
      /\ proc[p].pc = "done" =>
           \/ /\ proc[p].result = "ok"
              /\ proc[p].scripts.problem_agitate_solution = proc[p].scripts_required
              /\ proc[p].scripts.testimonial = proc[p].scripts_required
              /\ proc[p].scripts.transformation = proc[p].scripts_required
           \/ /\ proc[p].result = "ValidationError"
              /\ \/ ~proc[p].response.headings
                 \/ proc[p].response.problem_agitate_solution < proc[p].scripts_required
                 \/ proc[p].response.testimonial < proc[p].scripts_required
                 \/ proc[p].response.transformation < proc[p].scripts_required

\* ------------------------------------------------------------ C34 (SpecVideo)
\* C34: a submission the provider answered with the status "queued" is stored
\* as video_status "submitted": no handler is about to store "queued", and no
\* post row has the video_status "queued".
C34_QueuedStoredAsSubmitted ==
  /\ \A i \in DOMAIN posts : posts[i].video_status # "queued"
  /\ \A p \in ApiProcs :
       proc[p].pc \in {"gv_store", "ga_store"} =>
         /\ proc[p].dbstatus # "queued"
         /\ jobs[proc[p].opid] = "queued" => proc[p].dbstatus = "submitted"

\* the row of a post holds "submitted" and the id of a Sora job that is queued
C34_Witness ==
  \E i \in DOMAIN posts :
    /\ posts[i].provider = "sora_2"
    /\ posts[i].op \in DOMAIN jobs
    /\ jobs[posts[i].op] = "queued"
    /\ posts[i].video_status = "submitted"

\* --------------------------------------------------------- C35 (SpecResubmit)
\* C35: whenever no generate_video or generate_all_videos call is in flight,
\* every operation id the provider has returned is held in the
\* video_operation_id of a post or in a Recovery Record.
C35_EveryOperationHasStoredHandle ==
  (\A p \in ApiProcs : proc[p].pc \in {"idle", "done"}) =>
    \A o \in DOMAIN jobs :
      jobs[o] # "none" =>
        \/ \E i \in DOMAIN posts : posts[i].op = o
        \/ \E k \in DOMAIN recoveryLog : recoveryLog[k].operation_id = o

\* ------------------------------------------------------------- C36 (SpecSeed)
\* C36: whenever the batch is in S2_SEEDED or a later state, it has as many
\* post rows as its post_type_counts ask for.
C36_SeededBatchHasRequestedPosts ==
  batchState # S1_SETUP => Cardinality(DOMAIN posts) = NumPosts

\* -------------------------------------------------------------- C37 (SpecPoll)
\* C37: a step of the poller sets a post's video_status to failed only when the
\* provider reported a terminal failure (failed, cancelled) for the post's
\* operation; a poller step taken for a post whose operation the provider has
\* not failed (the status call, the download or the upload raised) does not
\* mark the post failed and removes no key from its video_metadata.
C37_FailedOnlyOnProviderFailure ==
  [][\A i \in DOMAIN posts :
       (/\ proc'[Poller] # proc[Poller]
        /\ posts'[i] # posts[i]
        /\ jobs[posts[i].op] \notin {"failed", "cancelled"}) =>
         /\ posts'[i].video_status # "failed"
         /\ posts[i].meta \subseteq posts'[i].meta]_vars

\* -------------------------------------------------------- C38 (SpecVideoFair)
\* C38: with the poller running for ever and the provider bringing every job
\* to a terminal status, every post on which a submission was persisted (the
\* operation id is stored on the post) eventually has video_status completed
\* or failed.
C38_PersistedSubmissionTerminates ==
  \A i \in PostIds :
    (posts[i].op # 0) ~> (posts[i].video_status \in {"completed", "failed"})

\* ---------------------------------------------------------- C39 (SpecScripted)
\* C39: once every build-prompt and advance operation on the batch has
\* finished, a batch whose posts all have a video_prompt_json is not in
\* S4_SCRIPTED (it has gone on to S5_PROMPTS_BUILT), in whatever order the
\* prompts were built and the batch was advanced to S4_SCRIPTED.
C39_AllPromptsLeaveScripted ==
  (/\ \A p \in Racers : proc[p].pc \in {"idle", "done"}
   /\ \A i \in DOMAIN posts : posts[i].prompt) =>
    batchState # S4_SCRIPTED

\* ----------------------------------------------------------- C40 (SpecPublish)
\* C40: a step of confirm_publish changes the batch state only from
\* S7_PUBLISH_PLAN to S8_COMPLETE and only when every post has a scheduled
\* time; a confirm_publish that fails changes neither the batch state nor any
\* post; and once no request is running, no post carries confirm_publish's
\* mark (publish_status scheduled with platform ids) unless the batch is
\* S8_COMPLETE.
C40_ConfirmPublishAllOrNothing ==
  [][/\ \A p \in Racers :
          (proc[p].op = "confirm_publish" /\ proc'[p] # proc[p]) =>
            /\ batchState' # batchState =>
                 /\ batchState = S7_PUBLISH_PLAN
                 /\ batchState' = S8_COMPLETE
                 /\ \A i \in DOMAIN posts : posts[i].scheduled
            /\ (proc'[p].pc = "done" /\ proc'[p].result # "ok") =>
                 /\ batchState' = batchState
                 /\ posts' = posts
     /\ ((\A p \in Racers : proc'[p].pc \in {"idle", "done"}) /\ batchState' # S8_COMPLETE) =>
          \A i \in DOMAIN posts : ~posts'[i].platform_ids]_vars

====
